---- MODULE Spec2Model ----
(***************************************************************************)
(* A model of the Compact Binary Codec of pynimcodec: the bit buffer       *)
(* engine (bitman.py), the uint, string, data and bitmaskarray field       *)
(* codecs, and encode_message / decode_message with their nim and CoAP     *)
(* framing.  Buffers are sequences of bytes (0..255), strings are          *)
(* sequences of Unicode code points, mappings are functions from names.    *)
(***************************************************************************)
EXTENDS Integers, Sequences, FiniteSets, TLC

\* ------------------------------------------------------------------------
\* Bounds of the model
\* ------------------------------------------------------------------------
\* longest string / data value offered to an encoder
MaxStrLen == 2
\* largest start offset offered to a field encoder
MaxOffset == 9
\* largest size, in bits, of the uint fields handed to the uint codec
MaxUintSize == 4

\* ------------------------------------------------------------------------
\* Python values that have no TLA+ counterpart
\* ------------------------------------------------------------------------
\* None where an int is expected (length, message_key, mid)
None == -1

\* Python truth value of an int or None
Truthy(n) == n /= None /\ n /= 0

\* ------------------------------------------------------------------------
\* bitman.py
\* ------------------------------------------------------------------------
\* n elements of ff, the padding of a buffer grown by buffer.append(255)
Filled(n) == [i \in 1..n |-> 255]

\* n zero bytes (or bits)
Zeros(n) == [i \in 1..n |-> 0]

\* bin(value)[2:] as a list of ints, value >= 0
RECURSIVE Bin(_)
Bin(value) ==
    IF value < 2 THEN <<value>> ELSE Bin(value \div 2) \o <<value % 2>>

\* int.bit_length()
BitLength(value) ==
    LET a == IF value < 0 THEN -value ELSE value
    IN  IF a = 0 THEN 0 ELSE Len(Bin(a))

\* lines 72-76 of from_int: the digits, padded with zeros to length
Padded(bits, length) ==
    IF Len(bits) > length THEN [ok |-> FALSE, bits |-> <<>>]
    ELSE [ok |-> TRUE, bits |-> Zeros(length - Len(bits)) \o bits]

\* lines 67-76 of from_int.  bin() of a value that is still negative
\* after the two's complement step is '-0b...', and int('b') raises
\* ValueError.
FromIntOfLength(value, length) ==
    IF length <= 0 THEN [ok |-> FALSE, bits |-> <<>>]
    ELSE IF value < 0 /\ 2^length + value < 0
    THEN [ok |-> FALSE, bits |-> <<>>]
    ELSE Padded(Bin(IF value < 0 THEN 2^length + value ELSE value), length)

\* BitArray.from_int(value, length); length = None when not given
FromInt(value, length) ==
    FromIntOfLength(value,
                    IF length = None
                    THEN BitLength(value) + (IF value < 0 THEN 1 ELSE 0)
                    ELSE length)

\* f'{byte:08b}'
ByteBits(byte) == [i \in 1..8 |-> (byte \div 2^(8 - i)) % 2]

\* BitArray.from_bytes(value)
RECURSIVE FromBytes(_)
FromBytes(value) ==
    IF value = <<>> THEN <<>>
    ELSE ByteBits(Head(value)) \o FromBytes(Tail(value))

\* the unsigned integer a list of bits stands for, MSB first
RECURSIVE BitsToInt(_)
BitsToInt(bits) ==
    IF bits = <<>> THEN 0
    ELSE 2 * BitsToInt(SubSeq(bits, 1, Len(bits) - 1)) + bits[Len(bits)]

\* int.to_bytes(bits, n, 'big') of the integer the bits stand for, where
\* Len(bits) = 8 * n
RECURSIVE BitsToBytes(_)
BitsToBytes(bits) ==
    IF Len(bits) < 8 THEN <<>>
    ELSE <<BitsToInt(SubSeq(bits, 1, 8))>>
         \o BitsToBytes(SubSeq(bits, 9, Len(bits)))

\* raw_data taken as it is, without the shift
ShiftRightNot(bits, shift_amount) == bits

\* raw_data >> shift_amount, on the list of bits of raw_data
ShiftRight(bits, shift_amount) == SubSeq(bits, 1, Len(bits) - shift_amount)

\* bits & ((1 << length) - 1)
MaskLow(bits, length) == SubSeq(bits, Len(bits) - length + 1, Len(bits))

\* lines 150-154 of extract_from_buffer: the value of the extracted bits,
\* as a signed or unsigned int or as bytes
Extracted(extracted_bits, length, signed, as_buffer) ==
    IF as_buffer
    THEN \* int.to_bytes raises OverflowError when the value needs more
         \* than length // 8 bytes
         IF \E i \in 1..(length % 8) : extracted_bits[i] = 1
         THEN [ok |-> FALSE, value |-> 0, bytes |-> <<>>]
         ELSE [ok |-> TRUE, value |-> 0,
               bytes |-> BitsToBytes(SubSeq(extracted_bits,
                                            (length % 8) + 1, length))]
    ELSE [ok |-> TRUE,
          value |-> BitsToInt(extracted_bits)
                    - (IF signed /\ extracted_bits[1] = 1
                       THEN 2^length ELSE 0),
          bytes |-> <<>>]

\* extract_from_buffer(buffer, offset, length, signed, as_buffer).
\* raw_data is kept as its list of bits.
ExtractFromBuffer(buffer, offset, length, signed, as_buffer) ==
    LET Fail == [ok |-> FALSE, value |-> 0, bytes |-> <<>>]
    IN
    IF offset < 0 \/ offset >= Len(buffer) * 8 THEN Fail
    ELSE IF length /= None /\ length < 1 THEN Fail
    ELSE
    LET length1 == IF length = None THEN Len(buffer) * 8 - offset ELSE length
    IN
    IF offset + length1 > Len(buffer) * 8 THEN Fail
    ELSE
    LET start_byte == offset \div 8
        end_byte == (offset + length1 - 1) \div 8 + 1
        bit_start_within_byte == offset % 8
        total_bits == (end_byte - start_byte) * 8
        shift_amount == total_bits - bit_start_within_byte - length1
    IN  Extracted(MaskLow(ShiftRight(FromBytes(SubSeq(buffer, start_byte + 1,
                                                      end_byte)),
                                     shift_amount),
                          length1),
                  length1, signed, as_buffer)

\* buffer[i] |= (1 << (7 - b)),  i zero-based
SetBit(buffer, i, b) ==
    [buffer EXCEPT ![i + 1] =
        IF (@ \div 2^(7 - b)) % 2 = 1 THEN @ ELSE @ + 2^(7 - b)]

\* buffer[i] &= ~(1 << (7 - b))
ClearBit(buffer, i, b) ==
    [buffer EXCEPT ![i + 1] =
        IF (@ \div 2^(7 - b)) % 2 = 1 THEN @ - 2^(7 - b) ELSE @]

\* WriteBits without the else branch of lines 195-196: bits are set, never
\* cleared, as if the buffer were always zero-filled (the variant that
\* C7_UintWireForm must tell apart)
RECURSIVE WriteBitsSetOnly(_, _, _, _)
WriteBitsSetOnly(bit_array, buffer, byte_offset, bit_offset_in_byte) ==
    IF bit_array = <<>> THEN buffer
    ELSE WriteBitsSetOnly(
            Tail(bit_array),
            IF Head(bit_array) = 1
            THEN SetBit(buffer, byte_offset, bit_offset_in_byte)
            ELSE buffer,
            IF bit_offset_in_byte + 1 = 8 THEN byte_offset + 1
            ELSE byte_offset,
            IF bit_offset_in_byte + 1 = 8 THEN 0 ELSE bit_offset_in_byte + 1)

\* the for loop of append_bits_to_buffer, lines 192-200
RECURSIVE WriteBits(_, _, _, _)
WriteBits(bit_array, buffer, byte_offset, bit_offset_in_byte) ==
    IF bit_array = <<>> THEN buffer
    ELSE
    LET b1 == IF Head(bit_array) = 1
              THEN SetBit(buffer, byte_offset, bit_offset_in_byte)
              ELSE ClearBit(buffer, byte_offset, bit_offset_in_byte)
        wrap == bit_offset_in_byte + 1 = 8
    IN  WriteBits(Tail(bit_array), b1,
                  IF wrap THEN byte_offset + 1 ELSE byte_offset,
                  IF wrap THEN 0 ELSE bit_offset_in_byte + 1)

\* append_bits_to_buffer(bit_array, buffer, offset).  The bytearray is
\* changed in place: buffer is what the caller's bytearray holds after
\* the call, also when the call raises.
AppendBitsToBuffer(bit_array, buffer, offset) ==
    IF offset < 0 THEN [ok |-> FALSE, buffer |-> buffer]
    ELSE
    LET b1 == IF Len(buffer) = 0 THEN <<0>> ELSE buffer
    IN  IF offset > Len(b1) * 8 THEN [ok |-> FALSE, buffer |-> b1]
        ELSE
        LET total_bits == offset + Len(bit_array)
            required_bytes == (total_bits + 7) \div 8
            b2 == IF Len(b1) < required_bytes
                  THEN b1 \o Zeros(required_bytes - Len(b1)) ELSE b1
        IN  [ok |-> TRUE,
             buffer |-> WriteBits(bit_array, b2, offset \div 8, offset % 8)]

\* a | b on bytes
BitOr(a, b) ==
    LET bit(x, i) == (x \div 2^i) % 2
        or(i) == IF bit(a, i) = 1 \/ bit(b, i) = 1 THEN 2^i ELSE 0
    IN  or(0) + or(1) + or(2) + or(3) + or(4) + or(5) + or(6) + or(7)

\* the for loop of append_bytes_to_buffer, lines 234-251
RECURSIVE WriteBytes(_, _, _, _)
WriteBytes(data, buffer, byte_offset, bit_offset_within_byte) ==
    IF data = <<>> THEN buffer
    ELSE
    LET byte == Head(data)
        b1 == IF bit_offset_within_byte = 0
              THEN IF byte_offset < Len(buffer)
                   THEN [buffer EXCEPT ![byte_offset + 1] = byte]
                   ELSE Append(buffer, byte)
              ELSE
              LET bits_to_write_in_current_byte == 8 - bit_offset_within_byte
                  current_byte_mask ==
                      (byte \div 2^bit_offset_within_byte) % 256
                  next_byte_mask ==
                      (byte * 2^bits_to_write_in_current_byte) % 256
                  c1 == [buffer EXCEPT ![byte_offset + 1] =
                            BitOr(@, current_byte_mask)]
                  c2 == IF byte_offset + 1 >= Len(c1)
                        THEN Append(c1, 0) ELSE c1
              IN  [c2 EXCEPT ![byte_offset + 2] = BitOr(@, next_byte_mask)]
    IN  WriteBytes(Tail(data), b1, byte_offset + 1,
                   (bit_offset_within_byte + 8) % 8)

\* append_bytes_to_buffer(data, buffer, offset)
AppendBytesToBuffer(data, buffer, offset) ==
    IF offset < 0 THEN [ok |-> FALSE, buffer |-> buffer]
    ELSE
    LET byte_offset == offset \div 8
        b1 == IF Len(buffer) <= byte_offset
              THEN buffer \o Zeros(byte_offset + 1 - Len(buffer))
              ELSE buffer
    IN  [ok |-> TRUE,
         buffer |-> WriteBytes(data, b1, byte_offset, offset % 8)]

\* ------------------------------------------------------------------------
\* Field definitions.  Every field is a record
\*   [name, type, size, optional, fixed, encalc, decalc, enum, fields]
\* enum is the insertion-ordered dict of a bitmaskarray, a sequence of
\* [key, value] pairs; fields are the columns of a bitmaskarray.
\* ------------------------------------------------------------------------
Field(name, type, size, optional, fixed, encalc) ==
    [name |-> name, type |-> type, size |-> size, optional |-> optional,
     fixed |-> fixed, encalc |-> encalc, decalc |-> "",
     enum |-> <<>>, fields |-> <<>>]

UintField(name, size, optional, encalc) ==
    Field(name, "uint", size, optional, FALSE, encalc)

StringField(name, size, optional, fixed) ==
    Field(name, "string", size, optional, fixed, "")

DataField(name, size, optional, fixed) ==
    Field(name, "data", size, optional, fixed, "")

StructField(name, optional, fields) ==
    [Field(name, "struct", 0, optional, FALSE, "") EXCEPT !.fields = fields]

BitmaskArrayField(name, size, enum, fields) ==
    [Field(name, "bitmaskarray", size, FALSE, FALSE, "")
        EXCEPT !.enum = enum, !.fields = fields]

\* ------------------------------------------------------------------------
\* cbc/field/calc.py: an expression in the one variable v
\* ------------------------------------------------------------------------
CalcExpressions == {"", "v+10", "v-10"}

Calc(expr, v) ==
    CASE expr = "v+10" -> v + 10
      [] expr = "v-10" -> v - 10
      [] OTHER -> v

calc_encode(expr, v) == Calc(expr, v)

calc_decode(expr, v) == Calc(expr, v)

\* ------------------------------------------------------------------------
\* What the codecs return.  An encoder gives (buffer, offset) and a
\* decoder (value, offset); ok is FALSE when the call raises, and buffer is
\* then what the caller's bytearray holds at that moment.
\* ------------------------------------------------------------------------
Encoded(buffer, offset) == [ok |-> TRUE, buffer |-> buffer, offset |-> offset]

EncodeError(buffer, offset) ==
    [ok |-> FALSE, buffer |-> buffer, offset |-> offset]

Decoded(value, offset) == [ok |-> TRUE, value |-> value, offset |-> offset]

DecodeError == [ok |-> FALSE, value |-> 0, offset |-> 0]

\* ( append_..._to_buffer(...), next_offset ): r is what the append gave
Appended(r, offset, next_offset) ==
    [ok |-> r.ok, buffer |-> r.buffer,
     offset |-> IF r.ok THEN next_offset ELSE offset]

\* ( extract_from_buffer(...), next_offset ): e is what the extract gave
Extraction(e, next_offset) ==
    IF e.ok THEN Decoded(e.value, next_offset) ELSE DecodeError

\* bits = BitArray.from_int(...); append_bits_to_buffer(bits, buffer, offset)
AppendInt(bits, buffer, offset) ==
    IF ~bits.ok THEN EncodeError(buffer, offset)
    ELSE Appended(AppendBitsToBuffer(bits.bits, buffer, offset), offset,
                  offset + Len(bits.bits))

\* ------------------------------------------------------------------------
\* cbc/field/field_length.py: the length prefix of variable-width fields
\* ------------------------------------------------------------------------
\* the maximum representable length, 2^15 - 1
MaxLength == 32767

\* flag 0 and 7 bits below 128, else flag 1 and 15 bits
encode_field_length(length, buffer, offset) ==
    AppendInt(IF length < 128 THEN FromInt(length, 8)
              ELSE IF length > MaxLength THEN [ok |-> FALSE, bits |-> <<>>]
              ELSE FromInt(32768 + length, 16),
              buffer, offset)

\* the 7 or 15 bits after the flag
LengthAfterFlag(l_flag, buffer, offset) ==
    IF ~l_flag.ok THEN DecodeError
    ELSE IF l_flag.value = 1
    THEN Extraction(ExtractFromBuffer(buffer, offset + 1, 15, FALSE, FALSE),
                    offset + 16)
    ELSE Extraction(ExtractFromBuffer(buffer, offset + 1, 7, FALSE, FALSE),
                    offset + 8)

decode_field_length(buffer, offset) ==
    LengthAfterFlag(ExtractFromBuffer(buffer, offset, 1, FALSE, FALSE),
                    buffer, offset)

\* ------------------------------------------------------------------------
\* nimo/message_definitions.py: the same prefix, read by the NIMO parser
\* ------------------------------------------------------------------------
\* extract_bits(data, offset, length): (data_int >> shift) & mask.  A
\* negative shift raises ValueError inside the try, which is logged, and
\* the function returns None.
ExtractBits(data, offset, length) ==
    IF 8 * Len(data) - (offset + length) < 0 THEN None
    ELSE BitsToInt(SubSeq(FromBytes(data), offset + 1, offset + length))

\* ParseFieldLength that reads 7 bits whatever the flag says (the variant
\* that C14_LengthPrefix must tell apart)
ParseFieldLengthShort(data, offset) ==
    [value |-> ExtractBits(data, offset + 1, 7), offset |-> offset + 1 + 7]

\* parse_field_length(data, offset): l_len is 15 if l_flag is truthy (None
\* and 0 are not), else 7
ParseFieldLength(data, offset) ==
    [value |-> ExtractBits(data, offset + 1,
                           IF Truthy(ExtractBits(data, offset, 1))
                           THEN 15 ELSE 7),
     offset |-> offset + 1 + (IF Truthy(ExtractBits(data, offset, 1))
                              THEN 15 ELSE 7)]

\* length_prefix_bits(n) of the bit-length law
LengthPrefixBits(n) == IF n < 128 THEN 8 ELSE 16

\* ------------------------------------------------------------------------
\* cbc/field/uint_field.py
\* ------------------------------------------------------------------------
UintMaxValue(field) == 2^field.size - 1

\* lines 147-150: the value after encalc
UintCalc(field, value) ==
    IF field.encalc /= "" THEN calc_encode(field.encalc, value) ELSE value

\* encode(field, value, buffer, offset) of uint_field.py
UintEncode(field, value, buffer, offset) ==
    IF field.type /= "uint" THEN EncodeError(buffer, offset)
    ELSE IF value < 0 THEN EncodeError(buffer, offset)
    ELSE IF UintCalc(field, value) > UintMaxValue(field)
    THEN EncodeError(buffer, offset)
    ELSE AppendInt(FromInt(UintCalc(field, value), field.size),
                   buffer, offset)

\* lines 116-118: decalc applied to the extracted value
UintDecalc(field, v) ==
    IF v.ok /\ field.decalc /= ""
    THEN Decoded(calc_decode(field.decalc, v.value), v.offset)
    ELSE v

\* decode(field, buffer, offset) of uint_field.py
UintDecode(field, buffer, offset) ==
    IF field.type /= "uint" THEN DecodeError
    ELSE UintDecalc(field,
                    Extraction(ExtractFromBuffer(buffer, offset, field.size,
                                                 FALSE, FALSE),
                               offset + field.size))

\* ------------------------------------------------------------------------
\* cbc/field/string_field.py.  A str is a sequence of code points; the
\* model's alphabet lies in U+0000..U+07FF, one or two UTF-8 bytes each.
\* ------------------------------------------------------------------------
\* str.encode()
RECURSIVE Utf8Encode(_)
Utf8Encode(value) ==
    IF value = <<>> THEN <<>>
    ELSE (IF Head(value) < 128 THEN <<Head(value)>>
          ELSE <<192 + (Head(value) \div 64), 128 + (Head(value) % 64)>>)
         \o Utf8Encode(Tail(value))

\* a lead byte of a two-byte sequence and its continuation byte
IsTwoByte(bytes) ==
    /\ Len(bytes) >= 2
    /\ bytes[1] >= 194 /\ bytes[1] <= 223
    /\ bytes[2] >= 128 /\ bytes[2] <= 191

\* bytes.decode(): the code points so far in acc; ok is FALSE for
\* UnicodeDecodeError
RECURSIVE Utf8DecodeFrom(_, _)
Utf8DecodeFrom(bytes, acc) ==
    IF bytes = <<>> THEN [ok |-> TRUE, value |-> acc]
    ELSE IF bytes[1] >= 128 /\ ~IsTwoByte(bytes)
    THEN [ok |-> FALSE, value |-> <<>>]
    ELSE Utf8DecodeFrom(
            SubSeq(bytes, IF IsTwoByte(bytes) THEN 3 ELSE 2, Len(bytes)),
            Append(acc, IF IsTwoByte(bytes)
                        THEN (bytes[1] - 192) * 64 + (bytes[2] - 128)
                        ELSE bytes[1]))

Utf8Decode(bytes) == Utf8DecodeFrom(bytes, <<>>)

\* while len(value) < size: value += pad
RECURSIVE PadTo(_, _, _)
PadTo(value, size, pad) ==
    IF Len(value) < size THEN PadTo(Append(value, pad), size, pad) ELSE value

\* value[0:size]
Truncated(value, size) ==
    IF Len(value) > size THEN SubSeq(value, 1, size) ELSE value

\* lines 123-127 of string_field.py: the value cut to size characters and,
\* for a fixed field, padded with spaces
StringValue(field, value) ==
    IF field.fixed THEN PadTo(Truncated(value, field.size), field.size, 32)
    ELSE Truncated(value, field.size)

\* the return statement of the string and data encoders: the bytes are
\* appended where the length prefix l ended, and the cursor advances by
\* 8 bits per element (character or byte) of the value
AppendPayload(l, bytes, elements) ==
    IF ~l.ok THEN l
    ELSE Appended(AppendBytesToBuffer(bytes, l.buffer, l.offset), l.offset,
                  l.offset + elements * 8)

\* encode(field, value, buffer, offset) of string_field.py
StringEncode(field, value, buffer, offset) ==
    IF field.type /= "string" THEN EncodeError(buffer, offset)
    ELSE AppendPayload(
            IF field.fixed THEN Encoded(buffer, offset)
            ELSE encode_field_length(Len(StringValue(field, value)),
                                     buffer, offset),
            Utf8Encode(StringValue(field, value)),
            Len(StringValue(field, value)))

\* .decode() of the extracted bytes
StringText(raw, next_offset) ==
    IF ~raw.ok THEN DecodeError
    ELSE IF ~Utf8Decode(raw.bytes).ok THEN DecodeError
    ELSE Decoded(Utf8Decode(raw.bytes).value, next_offset)

\* line 95-96 of string_field.py, l the length and the offset after it
StringBody(l, buffer) ==
    IF ~l.ok THEN DecodeError
    ELSE StringText(ExtractFromBuffer(buffer, l.offset, l.value * 8,
                                      FALSE, TRUE),
                    l.offset + l.value * 8)

\* decode(field, buffer, offset) of string_field.py
StringDecode(field, buffer, offset) ==
    IF field.type /= "string" THEN DecodeError
    ELSE StringBody(IF field.fixed THEN Decoded(field.size, offset)
                    ELSE decode_field_length(buffer, offset),
                    buffer)

\* ------------------------------------------------------------------------
\* cbc/field/data_field.py.  A bytes value is a sequence of 0..255.
\* ------------------------------------------------------------------------
\* lines 123-128 of data_field.py
DataValue(field, value) ==
    IF field.fixed THEN PadTo(Truncated(value, field.size), field.size, 0)
    ELSE Truncated(value, field.size)

\* encode(field, value, buffer, offset) of data_field.py
DataEncode(field, value, buffer, offset) ==
    IF field.type /= "data" THEN EncodeError(buffer, offset)
    ELSE AppendPayload(
            IF field.fixed THEN Encoded(buffer, offset)
            ELSE encode_field_length(Len(DataValue(field, value)),
                                     buffer, offset),
            DataValue(field, value),
            Len(DataValue(field, value)))

\* line 95 of data_field.py: extract_from_buffer(buffer, offset, length * 8)
\* is called without as_buffer and returns the int of the extracted bits;
\* returns names the Python type of the value that comes back
DataExtract(buffer, offset, length, as_buffer, next_offset) ==
    [ok |-> ExtractFromBuffer(buffer, offset, length, FALSE, as_buffer).ok,
     returns |-> IF as_buffer THEN "bytes" ELSE "int",
     value |-> ExtractFromBuffer(buffer, offset, length, FALSE, as_buffer).value,
     bytes |-> ExtractFromBuffer(buffer, offset, length, FALSE, as_buffer).bytes,
     offset |-> IF ExtractFromBuffer(buffer, offset, length, FALSE,
                                     as_buffer).ok
                THEN next_offset ELSE 0]

\* lines 95-96 of data_field.py, l the length and the offset after it
DataBody(l, buffer) ==
    IF ~l.ok
    THEN [ok |-> FALSE, returns |-> "int", value |-> 0, bytes |-> <<>>,
          offset |-> 0]
    ELSE DataExtract(buffer, l.offset, l.value * 8, FALSE,
                     l.offset + l.value * 8)

\* decode(field, buffer, offset) of data_field.py
DataDecode(field, buffer, offset) ==
    DataBody(IF field.type /= "data" THEN DecodeError
             ELSE IF field.fixed THEN Decoded(field.size, offset)
             ELSE decode_field_length(buffer, offset),
             buffer)

\* ------------------------------------------------------------------------
\* cbc/field/base_field.py: Field.encode / Field.decode and the field list
\* driver.  A mapping {field_name: value} is a function from names.
\* ------------------------------------------------------------------------
\* field.encode(value, buffer, offset)
FieldEncode(field, value, buffer, offset) ==
    CASE field.type = "uint" -> UintEncode(field, value, buffer, offset)
      [] field.type = "string" -> StringEncode(field, value, buffer, offset)
      [] field.type = "data" -> DataEncode(field, value, buffer, offset)
      [] OTHER -> EncodeError(buffer, offset)

\* field.decode(buffer, offset)
FieldDecode(field, buffer, offset) ==
    CASE field.type = "uint" -> UintDecode(field, buffer, offset)
      [] field.type = "string" -> StringDecode(field, buffer, offset)
      [] field.type = "data" ->
            [ok |-> DataDecode(field, buffer, offset).ok,
             value |-> DataDecode(field, buffer, offset).value,
             offset |-> DataDecode(field, buffer, offset).offset]
      [] OTHER -> DecodeError

\* the field's own bits, after its presence bit p (if it has one)
EncodePresent(content, field, p) ==
    IF ~p.ok \/ field.name \notin DOMAIN content THEN p
    ELSE FieldEncode(field, content[field.name], p.buffer, p.offset)

\* one step of encode_fields: the presence bit of an optional field, 1 if
\* its name is in content, then the field; a missing non-optional field
\* fails
EncodeOne(content, field, buffer, offset) ==
    IF field.name \notin DOMAIN content /\ ~field.optional
    THEN EncodeError(buffer, offset)
    ELSE EncodePresent(
            content, field,
            IF field.optional
            THEN Appended(AppendBitsToBuffer(
                              <<IF field.name \in DOMAIN content
                                THEN 1 ELSE 0>>, buffer, offset),
                          offset, offset + 1)
            ELSE Encoded(buffer, offset))

\* the loop of encode_fields over the fields, acc the (buffer, offset) so far
RECURSIVE EncodeFieldsFrom(_, _, _)
EncodeFieldsFrom(content, fields, acc) ==
    IF fields = <<>> \/ ~acc.ok THEN acc
    ELSE EncodeFieldsFrom(content, Tail(fields),
                          EncodeOne(content, Head(fields), acc.buffer,
                                    acc.offset))

\* encode_fields(content, codec, buffer, offset), fields = codec.fields
encode_fields(content, fields, buffer, offset) ==
    EncodeFieldsFrom(content, fields, Encoded(buffer, offset))

\* the decoded mapping with the field's value v added
WithField(acc, name, v) ==
    IF ~v.ok THEN DecodeError
    ELSE Decoded((name :> v.value) @@ acc.value, v.offset)

\* the field's own bits, after its presence bit p (if it has one); an
\* absent field is left out of the mapping
DecodePresent(field, buffer, acc, p) ==
    IF ~p.ok THEN DecodeError
    ELSE IF p.value = 0 THEN Decoded(acc.value, p.offset)
    ELSE WithField(acc, field.name, FieldDecode(field, buffer, p.offset))

\* one step of decode_fields
DecodeOne(field, buffer, acc) ==
    DecodePresent(
        field, buffer, acc,
        IF field.optional
        THEN Extraction(ExtractFromBuffer(buffer, acc.offset, 1, FALSE, FALSE),
                        acc.offset + 1)
        ELSE Decoded(1, acc.offset))

\* the loop of decode_fields over the fields, acc the (value, offset) so far
RECURSIVE DecodeFieldsFrom(_, _, _)
DecodeFieldsFrom(fields, buffer, acc) ==
    IF fields = <<>> \/ ~acc.ok THEN acc
    ELSE DecodeFieldsFrom(Tail(fields), buffer,
                          DecodeOne(Head(fields), buffer, acc))

\* decode_fields(codec, buffer, offset), fields = codec.fields
decode_fields(fields, buffer, offset) ==
    DecodeFieldsFrom(fields, buffer, Decoded(<<>>, offset))

\* ------------------------------------------------------------------------
\* cbc/field/struct_field.py.  The value is a mapping, a function from
\* names.
\* ------------------------------------------------------------------------
\* lines 101-103: required = ['name', 'value'], all of them keys of value
StructRequired == {"name", "value"}

\* encode(field, value, buffer, offset) of struct_field.py: the mapping
\* itself is handed to encode_fields
StructEncode(field, value, buffer, offset) ==
    IF field.type /= "struct" THEN EncodeError(buffer, offset)
    ELSE IF ~(StructRequired \subseteq DOMAIN value)
    THEN EncodeError(buffer, offset)
    ELSE encode_fields(value, field.fields, buffer, offset)

\* decode(field, buffer, offset) of struct_field.py
StructDecode(field, buffer, offset) ==
    IF field.type /= "struct" THEN DecodeError
    ELSE decode_fields(field.fields, buffer, offset)

\* ------------------------------------------------------------------------
\* cbc/field/bitmaskarray_field.py.  The value, a dict from enum value
\* name to a list of rows, is the sequence of its [key, rows] items in
\* insertion order; names are sequences of code points.
\* ------------------------------------------------------------------------
EnumValues(field) == {field.enum[i].value : i \in DOMAIN field.enum}

\* field.enum = keys_values on a field of that size, lines 53-73, the
\* dict being the sequence of its [key, value] items with int keys: TRUE
\* when the dict is stored, FALSE when the setter raises
BmaSetEnum(size, keys_values) ==
    /\ keys_values /= <<>>
    /\ \A i \in DOMAIN keys_values :
            ~(keys_values[i].key < 0 \/ keys_values[i].key > size)
    /\ \A i, j \in DOMAIN keys_values :
            i /= j => keys_values[i].value /= keys_values[j].value

\* lines 177-179: 2**int(ek) summed over the enum items whose value is k
RECURSIVE BmaKeyBits(_, _)
BmaKeyBits(enum, k) ==
    IF enum = <<>> THEN 0
    ELSE (IF Head(enum).value = k THEN 2^Head(enum).key ELSE 0)
         + BmaKeyBits(Tail(enum), k)

\* lines 173-179: the bitmask of the keys of value; ok is FALSE when a key
\* is not an enum value
RECURSIVE BmaBitmask(_, _)
BmaBitmask(field, value) ==
    IF value = <<>> THEN [ok |-> TRUE, bitmask |-> 0]
    ELSE IF Head(value).key \notin EnumValues(field)
    THEN [ok |-> FALSE, bitmask |-> 0]
    ELSE [ok |-> BmaBitmask(field, Tail(value)).ok,
          bitmask |-> BmaKeyBits(field.enum, Head(value).key)
                      + BmaBitmask(field, Tail(value)).bitmask]

\* the state of the loops of lines 180-197: the caller's buffer and
\* offset, and the tmp_buffer and tmp_offset of the rows
BmaState(ok, buffer, offset, tmp_buffer, tmp_offset) ==
    [ok |-> ok, buffer |-> buffer, offset |-> offset,
     tmp_buffer |-> tmp_buffer, tmp_offset |-> tmp_offset]

\* line 193: the column's result lands in tmp_buffer and tmp_offset
BmaAfterColumn(r, p) ==
    BmaState(r.ok, p.buffer, p.offset, r.buffer, r.offset)

\* lines 190-193 after the presence bit p: a row that is not a dict is
\* refused when there are several columns, else handed to the column,
\* and only a string column takes a str
BmaColumnValue(field, col, row, acc, p) ==
    IF ~p.ok \/ Len(field.fields) > 1 \/ col.type /= "string"
    THEN BmaState(FALSE, p.buffer, p.offset, acc.tmp_buffer, acc.tmp_offset)
    ELSE BmaAfterColumn(
            StringEncode(col, row, acc.tmp_buffer, acc.tmp_offset), p)

\* lines 184-193 for one column.  Iterating the dict yields its keys, so
\* row is a str and never a dict: an optional column is always marked
\* present and the column encoder is handed the key itself.
BmaColumn(field, col, row, acc) ==
    BmaColumnValue(
        field, col, row, acc,
        IF col.optional
        THEN Appended(AppendBitsToBuffer(<<1>>, acc.buffer, acc.offset),
                      acc.offset, acc.offset + 1)
        ELSE Encoded(acc.buffer, acc.offset))

\* the loop of line 183 over the columns
RECURSIVE BmaColumns(_, _, _, _)
BmaColumns(field, cols, row, acc) ==
    IF cols = <<>> \/ ~acc.ok THEN acc
    ELSE BmaColumns(field, Tail(cols), row,
                    BmaColumn(field, Head(cols), row, acc))

\* the loop of line 182 over the items of value
RECURSIVE BmaRows(_, _, _)
BmaRows(field, value, acc) ==
    IF value = <<>> \/ ~acc.ok THEN acc
    ELSE BmaRows(field, Tail(value),
                 BmaColumns(field, field.fields, Head(value).key, acc))

\* line 198 calls append_bits_to_buffer without its buffer argument, a
\* TypeError: the call raises after the loops wrote the presence bits
\* into the caller's buffer
BmaWriteMask(acc, offset) == EncodeError(acc.buffer, offset)

\* encode(field, value, buffer, offset) of bitmaskarray_field.py
BmaEncode(field, value, buffer, offset) ==
    IF field.type /= "bitmaskarray" THEN EncodeError(buffer, offset)
    ELSE IF ~BmaBitmask(field, value).ok THEN EncodeError(buffer, offset)
    ELSE BmaWriteMask(BmaRows(field, value,
                              BmaState(TRUE, buffer, offset, <<>>, 0)),
                      offset)

\* line 125: bitmask, offset = extract_from_buffer(buffer, offset,
\* field.size).  extract_from_buffer returns one int e (or raises
\* ValueError); unpacking an int into two names is a TypeError, so the
\* statement raises in both cases and lines 126-145 are never reached.
BmaUnpack(e) == DecodeError

\* decode(field, buffer, offset) of bitmaskarray_field.py
BmaDecode(field, buffer, offset) ==
    IF field.type /= "bitmaskarray" THEN DecodeError
    ELSE BmaUnpack(ExtractFromBuffer(buffer, offset, field.size,
                                     FALSE, FALSE))

\* ------------------------------------------------------------------------
\* cbc/message/base_message.py.  A Message is a record
\*   [name, direction, message_key, fields]
\* and a Messages list a sequence of them.  Keyword arguments that were
\* not given are "" (name, direction), None (message_key) and <<>>
\* (message, a sequence of at most one Message).  messages = None is the
\* empty list: every path that uses it raises in both cases.
\* ------------------------------------------------------------------------
Message(name, direction, message_key, fields) ==
    [name |-> name, direction |-> direction, message_key |-> message_key,
     fields |-> fields]

\* [e.value for e in MessageDirection]
MessageDirections == {"UPLINK", "DOWNLINK"}

\* the first element of a list that satisfies a test, as a list of at most
\* one element
First(messages, hits) ==
    IF hits = {} THEN <<>>
    ELSE <<messages[CHOOSE i \in hits : \A j \in hits : i <= j]>>

\* CodecList.__getitem__(name): the first element of that name; <<>> when
\* it raises
ByName(messages, name) ==
    First(messages, {i \in DOMAIN messages : messages[i].name = name})

\* the loop of Messages.by_key, lines 137-139, and of decode_message,
\* lines 268-271: the first element of that key and direction
FirstByKey(messages, message_key, direction) ==
    First(messages, {i \in DOMAIN messages :
                        /\ messages[i].message_key = message_key
                        /\ messages[i].direction = direction})

\* by_key without the direction test of line 138: the first message of
\* that key, whatever its direction (the variant that C4_DispatchByKey
\* must tell apart)
ByKeyAnyDirection(messages, message_key, direction) ==
    IF message_key \notin 0..65535 THEN <<>>
    ELSE IF direction \notin MessageDirections THEN <<>>
    ELSE First(messages, {i \in DOMAIN messages :
                            messages[i].message_key = message_key})

\* Messages.by_key(message_key, direction); <<>> when it raises
ByKey(messages, message_key, direction) ==
    IF message_key \notin 0..65535 THEN <<>>
    ELSE IF direction \notin MessageDirections THEN <<>>
    ELSE FirstByKey(messages, message_key, direction)

\* the three checks of the message_key setter, lines 54-59: the names of
\* the conflicts that value has with the compatibility flags
KeyConflicts(coap_compatible, vsat_reserved, nimo_compatible, value) ==
    (IF coap_compatible /\ value < 49152 THEN {"coap"} ELSE {})
    \cup (IF ~vsat_reserved /\ value > 65279 THEN {"vsat"} ELSE {})
    \cup (IF nimo_compatible /\ value \notin 32768..65279
          THEN {"nimo"} ELSE {})

\* Message.message_key = value, lines 50-60: it raises for a value that
\* is no 16-bit unsigned integer; each conflict is handed to
\* warnings.warn and the value is stored
SetMessageKey(coap_compatible, vsat_reserved, nimo_compatible, value) ==
    IF value \notin 0..65535
    THEN [ok |-> FALSE, warned |-> {}, message_key |-> None]
    ELSE [ok |-> TRUE,
          warned |-> KeyConflicts(coap_compatible, vsat_reserved,
                                  nimo_compatible, value),
          message_key |-> value]

\* isinstance(codec, Message): a Message has a message_key, a Field has not
IsMessage(codec) == "message_key" \in DOMAIN codec

\* what a list operation gives: ok is FALSE when it raised, list is the
\* list afterwards
ListResult(ok, list) == [ok |-> ok, list |-> list]

\* CodecList.append(codec), base_codec.py lines 96-112
CodecListAppend(list, codec) ==
    IF ~IsMessage(codec) THEN ListResult(FALSE, list)
    ELSE IF \E i \in DOMAIN list : list[i].name = codec.name
    THEN ListResult(FALSE, list)
    ELSE ListResult(TRUE, Append(list, codec))

\* Messages.append without its loop over (message_key, direction): only
\* the name is checked
MessagesAppendByName(list, codec) ==
    IF list /= <<>> /\ ~IsMessage(codec) THEN ListResult(FALSE, list)
    ELSE CodecListAppend(list, codec)

\* Messages.append(codec), lines 110-124.  The loop reads
\* codec.message_key for the first element, an AttributeError when codec
\* is not a Message.
MessagesAppend(list, codec) ==
    IF list /= <<>> /\ ~IsMessage(codec) THEN ListResult(FALSE, list)
    ELSE IF \E i \in DOMAIN list :
                /\ list[i].message_key = codec.message_key
                /\ list[i].direction = codec.direction
    THEN ListResult(FALSE, list)
    ELSE CodecListAppend(list, codec)

\* CodecList.__setitem__(n, value) with an int n, lines 131-140:
\* list.__setitem__ takes -len..len-1 and raises IndexError otherwise
SetItemByIndex(list, n, value) ==
    IF ~IsMessage(value) THEN ListResult(FALSE, list)
    ELSE IF n >= Len(list) \/ n < 0 - Len(list) THEN ListResult(FALSE, list)
    ELSE ListResult(TRUE,
                    [list EXCEPT ![IF n < 0 THEN Len(list) + n + 1
                                   ELSE n + 1] = value])

\* CodecList.__setitem__(n, value) with a str n, lines 131-138: the loop
\* finds the index and breaks; the assignment is in the else branch of the
\* if and is not run, so nothing is stored and nothing is raised
SetItemByName(list, n, value) ==
    IF ~IsMessage(value) THEN ListResult(FALSE, list)
    ELSE ListResult(TRUE, list)

\* the list without its element at position i
Without(list, i) == SubSeq(list, 1, i - 1) \o SubSeq(list, i + 1, Len(list))

\* CodecList.remove(name), lines 142-155: the first element of that name
\* is removed and True returned, else False; it never raises
ListRemove(list, name) ==
    IF \E i \in DOMAIN list : list[i].name = name
    THEN [ok |-> TRUE, found |-> TRUE,
          list |-> Without(list, CHOOSE i \in DOMAIN list :
                                    /\ list[i].name = name
                                    /\ \A k \in 1..(i - 1) :
                                            list[k].name /= name)]
    ELSE [ok |-> TRUE, found |-> FALSE, list |-> list]

\* message_key.to_bytes(2, 'big')
KeyBytes(message_key) == <<message_key \div 256, message_key % 256>>

\* int.from_bytes(buffer[0:2], 'big')
KeyFromBytes(buffer) ==
    CASE Len(buffer) = 0 -> 0
      [] Len(buffer) = 1 -> buffer[1]
      [] OTHER -> buffer[1] * 256 + buffer[2]

\* what is on the wire: plain bytes (mid = None), or a CoAP datagram, of
\* which the codec sees the MessageID and the payload
Wire(mid, bytes) == [mid |-> mid, bytes |-> bytes]

EncodeMessageError == [ok |-> FALSE, wire |-> Wire(None, <<>>)]

\* lines 352-354: bytes(buffer), or the CoAP message of that payload
EncodeMessageReturn(r, coap, message_key) ==
    IF ~r.ok THEN EncodeMessageError
    ELSE [ok |-> TRUE,
          wire |-> Wire(IF coap THEN message_key ELSE None, r.buffer)]

\* encode_message without line 350: the key is written but the fields
\* still start at bit 0 (the variant that C2_FramingKeepsPayload must
\* tell apart)
EncodeMessageKeepsOffset(content, message, nim, coap) ==
    IF message = <<>> THEN EncodeMessageError
    ELSE IF content.name /= message[1].name THEN EncodeMessageError
    ELSE IF nim /\ coap THEN EncodeMessageError
    ELSE EncodeMessageReturn(
            encode_fields(
                content.value, message[1].fields,
                IF nim
                THEN AppendBytesToBuffer(KeyBytes(message[1].message_key),
                                         <<>>, 0).buffer
                ELSE <<>>,
                0),
            coap, message[1].message_key)

\* encode_message without lines 345-346: with both flags the key is
\* written into the buffer and the buffer wrapped in a CoAP message (the
\* variant that C5_FlagsExclusive must tell apart)
EncodeMessageBothFlags(content, message, nim, coap) ==
    IF message = <<>> THEN EncodeMessageError
    ELSE IF content.name /= message[1].name THEN EncodeMessageError
    ELSE EncodeMessageReturn(
            encode_fields(
                content.value, message[1].fields,
                IF nim
                THEN AppendBytesToBuffer(KeyBytes(message[1].message_key),
                                         <<>>, 0).buffer
                ELSE <<>>,
                IF nim THEN 16 ELSE 0),
            coap, message[1].message_key)

\* lines 340-354 of encode_message, message the codec that was resolved
EncodeMessageWith(content, message, nim, coap) ==
    IF message = <<>> THEN EncodeMessageError
    ELSE IF content.name /= message[1].name THEN EncodeMessageError
    ELSE IF nim /\ coap THEN EncodeMessageError
    ELSE EncodeMessageReturn(
            encode_fields(
                content.value, message[1].fields,
                IF nim
                THEN AppendBytesToBuffer(KeyBytes(message[1].message_key),
                                         <<>>, 0).buffer
                ELSE <<>>,
                IF nim THEN 16 ELSE 0),
            coap, message[1].message_key)

\* encode_message(content, messages=, message=, nim=, coap=); content is
\* [name, value].  The result holds what is returned: bytes, or a CoAP
\* message of that mid and payload.
EncodeMessage(content, messages, message, nim, coap) ==
    IF messages = <<>> /\ message = <<>> THEN EncodeMessageError
    ELSE EncodeMessageWith(content,
                           IF message = <<>>
                           THEN ByName(messages, content.name) ELSE message,
                           nim, coap)

DecodeMessageError ==
    [ok |-> FALSE, name |-> "", value |-> <<>>, key |-> None, offset |-> 0]

\* lines 289-297: the returned {name, value}, with the key that was
\* derived and the offset the fields were read from
DecodeMessageReturn(d, message, message_key, offset) ==
    IF ~d.ok THEN DecodeMessageError
    ELSE [ok |-> TRUE, name |-> message.name, value |-> d.value,
          key |-> message_key, offset |-> offset]

\* lines 285-297 of decode_message: message is what lines 254-271 found,
\* message_key and offset what lines 276-284 derived
DecodeMessageWith(bytes, messages, message, direction, message_key, offset) ==
    IF message = <<>> THEN DecodeMessageError
    ELSE IF Truthy(message_key) /\ message_key /= message[1].message_key
    THEN DecodeMessageError
    ELSE DecodeMessageReturn(decode_fields(message[1].fields, bytes, offset),
                             message[1], message_key, offset)

\* lines 254-271 of decode_message: the message given, or found by name or
\* by message_key and direction; <<>> when none was found yet
DecodeMessageLookup(messages, message, name, direction, message_key) ==
    IF message /= <<>> THEN message
    ELSE IF name /= "" THEN ByName(messages, name)
    ELSE IF Truthy(message_key)
    THEN FirstByKey(messages, message_key, direction)
    ELSE <<>>

\* lines 276-297 of decode_message
DecodeMessageFramed(wire, messages, message, direction, message_key, nim, coap) ==
    IF nim /\ coap THEN DecodeMessageError
    ELSE IF nim
    THEN DecodeMessageWith(
            wire.bytes, messages,
            IF message = <<>>
            THEN ByKey(messages, KeyFromBytes(wire.bytes), direction)
            ELSE message,
            direction, KeyFromBytes(wire.bytes), 16)
    ELSE DecodeMessageWith(
            wire.bytes, messages,
            IF message = <<>>
            THEN ByKey(messages, IF coap THEN wire.mid ELSE message_key,
                       direction)
            ELSE message,
            direction, IF coap THEN wire.mid ELSE message_key, 0)

\* decode_message(buffer, messages=, message=, name=, direction=,
\* message_key=, nim=, coap=)
DecodeMessage(wire, messages, message, name, direction, message_key, nim, coap) ==
    IF wire.mid = None /\ Len(wire.bytes) = 0 THEN DecodeMessageError
    ELSE IF message = <<>> /\ name /= "" /\ ByName(messages, name) = <<>>
    THEN DecodeMessageError
    ELSE IF message = <<>> /\ name = "" /\ direction \notin MessageDirections
    THEN DecodeMessageError
    ELSE IF message = <<>> /\ name = "" /\ Truthy(message_key)
            /\ message_key \notin 0..65535
    THEN DecodeMessageError
    ELSE DecodeMessageFramed(
            wire, messages,
            DecodeMessageLookup(messages, message, name, direction,
                                message_key),
            direction, message_key, nim, coap)

\* ------------------------------------------------------------------------
\* The inputs of the calls
\* ------------------------------------------------------------------------
\* 'A' and U+00E9, which takes two UTF-8 bytes
Alphabet == {65, 233}

Strings(n) == UNION {[1..k -> Alphabet] : k \in 0..n}

DataBytes == {0, 255}

Datas(n) == UNION {[1..k -> DataBytes] : k \in 0..n}

\* bytearrays handed to a field encoder: empty, or with earlier contents
Buffers == {<<>>, <<255>>, <<165, 90>>}

Offsets == 0..MaxOffset

\* what callers hand to extract_from_buffer: the buffers above and the
\* one of the tests, offsets and lengths from below the valid ones to
\* past the end of the longest buffer
MaxExtractBits == 25

ExtractBuffers == Buffers \cup {<<1, 2, 3>>}

ExtractOffsets == (0 - 1)..MaxExtractBits

ExtractLengths == 0..MaxExtractBits

\* what callers hand to append_bytes_to_buffer: the byte strings and
\* buffers above and the 01 of the tests
AppendDatas == Datas(MaxStrLen) \cup {<<1>>}

AppendBuffers == Buffers \cup {<<1>>}

\* what a writer appends at its cursor: bit arrays of up to MaxCursorBits
\* bits, and no byte or one byte; it stops at MaxCursor bits
MaxCursorBits == 3

MaxCursor == 12

CursorBits == UNION {[1..k -> {0, 1}] : k \in 0..MaxCursorBits}

CursorDatas == {data \in AppendDatas : Len(data) <= 1}

UintFields ==
    {UintField("testUint", size, FALSE, encalc) :
        size \in (MaxUintSize - 1)..MaxUintSize, encalc \in CalcExpressions}

UintInputs == (0 - 12)..(2^MaxUintSize + 11)

\* the uint field of the tests after uint_field.min = 1 and
\* uint_field.max = 4: two more attributes on the field object
UintFieldsMinMax ==
    {UintField("testUint", MaxUintSize, FALSE, "") @@ [min |-> 1, max |-> 4]}

StringFields ==
    {StringField("testString", size, FALSE, fixed) :
        size \in 1..MaxStrLen, fixed \in BOOLEAN}

DataFields ==
    {DataField("testData", size, FALSE, fixed) :
        size \in 1..MaxStrLen, fixed \in BOOLEAN}

\* buffers handed to the bitmaskarray decoder: masks 000, 001 and 101
\* followed by row bits, all ones, and buffers that are too short
BmaBuffers == {<<>>, <<0>>, <<0, 0>>, <<32, 0>>, <<165, 90>>, <<255, 255>>}

\* lengths around the switch from the 7-bit to the 15-bit form
LengthSamples == {0, 1, 127, 128, 129, MaxLength}

\* calls of encode_field_length: every length at the start of an empty
\* bytearray, and the sample lengths on every buffer and offset
LengthCalls ==
    {[length |-> n, buffer0 |-> <<>>, offset0 |-> 0] : n \in 0..MaxLength}
    \cup {[length |-> n, buffer0 |-> b, offset0 |-> o] :
            n \in LengthSamples, b \in Buffers, o \in Offsets}

\* "c1", "c2", "c3", "zz"
NameC1 == <<99, 49>>
NameC2 == <<99, 50>>
NameC3 == <<99, 51>>
NameZZ == <<122, 122>>

BmaEnum ==
    <<[key |-> 0, value |-> NameC1], [key |-> 1, value |-> NameC2],
      [key |-> 2, value |-> NameC3]>>

BmaFields ==
    {BitmaskArrayField("testBma", 3, BmaEnum, cols) :
        cols \in {<<UintField("s", 4, FALSE, ""), UintField("f", 4, TRUE, "")>>,
                  <<UintField("f", 4, TRUE, "")>>,
                  <<StringField("t", 2, TRUE, FALSE)>>,
                  <<UintField("s", 4, FALSE, "")>>}}

\* rows are mappings from column names
BmaRowSets ==
    {<<>>, <<("s" :> 3)>>, <<("f" :> 1)>>, <<("s" :> 3) @@ ("f" :> 1)>>,
     <<("t" :> <<65>>)>>}

BmaValues ==
    {<<>>} \cup {<<[key |-> k, rows |-> rows]>> :
                    k \in {NameC1, NameC3, NameZZ}, rows \in BmaRowSets}
    \cup {<<[key |-> NameC2, rows |-> rows], [key |-> NameC1, rows |-> rows]>> :
            rows \in BmaRowSets}

\* what callers hand to BitArray.from_int: values on both sides of what
\* MaxUintSize bits hold, and no length (None) or a length
FromIntValues == (0 - (2^MaxUintSize + 2))..(2^MaxUintSize + 1)

FromIntLengths == {None} \cup 0..MaxUintSize

\* the dicts handed to the enum setter: up to two items, keys from below
\* 0 to above the size, values that may be equal
BmaEnumKeys == (0 - 1)..(MaxUintSize + 1)

BmaEnums ==
    {<<>>}
    \cup {<<[key |-> k, value |-> v]>> :
            k \in BmaEnumKeys, v \in {NameC1, NameC2}}
    \cup {e \in {<<[key |-> k1, value |-> v1], [key |-> k2, value |-> v2]>> :
                    k1 \in BmaEnumKeys, k2 \in BmaEnumKeys,
                    v1 \in {NameC1, NameC2}, v2 \in {NameC1, NameC2}} :
            e[1].key /= e[2].key}

MsgEmpty == Message("mEmpty", "UPLINK", 49152, <<>>)

MsgUint == Message("mUint", "UPLINK", 49153, <<UintField("x", 4, FALSE, "")>>)

MsgOpt ==
    Message("mOpt", "UPLINK", 49154,
            <<UintField("u", 2, FALSE, ""),
              StringField("s", MaxStrLen, TRUE, FALSE)>>)

MsgDown ==
    Message("mDown", "DOWNLINK", 49153,
            <<StringField("t", MaxStrLen, FALSE, FALSE)>>)

MsgZero == Message("mZero", "UPLINK", 0, <<UintField("z", 1, TRUE, "")>>)

Msgs == {MsgEmpty, MsgUint, MsgOpt, MsgDown, MsgZero}

\* the values a field accepts
FieldValues(field) ==
    IF field.type = "uint" THEN 0..UintMaxValue(field)
    ELSE Strings(field.size)

\* the mappings that conform to a field list: every non-optional field,
\* any of the optional ones
RECURSIVE Conforming(_)
Conforming(fields) ==
    IF fields = <<>> THEN {<<>>}
    ELSE
    LET field == Head(fields)
        rest == Conforming(Tail(fields))
    IN  {(field.name :> v) @@ r : v \in FieldValues(field), r \in rest}
        \cup (IF field.optional THEN rest ELSE {})

\* structs: of plain fields, with an optional one, and one whose inner
\* fields are called name and value
StructFields ==
    {StructField("testStruct", FALSE,
                 <<UintField("a", 4, FALSE, ""), UintField("b", 2, TRUE, "")>>),
     StructField("testStruct", FALSE,
                 <<UintField("b", 2, TRUE, ""), UintField("a", 4, FALSE, "")>>),
     StructField("testStruct", FALSE,
                 <<UintField("name", 2, FALSE, ""),
                   UintField("value", 3, TRUE, "")>>)}

\* the mappings handed to a struct: those that conform to its fields,
\* and the same without the first field
StructValues(field) ==
    Conforming(field.fields) \cup Conforming(Tail(field.fields))

\* what callers hand to encode_message: the conforming values, and the
\* empty mapping, which lacks the non-optional fields
Contents ==
    UNION {{[name |-> m.name, value |-> v] :
                v \in Conforming(m.fields) \cup {<<>>}} : m \in Msgs}

\* Messages lists, built by append
Registries ==
    {<<>>, <<MsgDown, MsgOpt>>,
     <<MsgEmpty, MsgUint, MsgOpt, MsgDown, MsgZero>>}

EnvelopeKeys == {0, 1, 49152, 49153, 49154, 65535}

Payloads == {<<>>, <<48>>, <<193, 0>>}

\* what arrives from the network
ReceivedWires ==
    {Wire(None, KeyBytes(k) \o p) : k \in EnvelopeKeys, p \in Payloads}
    \cup {Wire(k, p) : k \in EnvelopeKeys, p \in Payloads}
    \cup {Wire(None, <<>>), Wire(None, <<192>>)}

\* the ways encode_message is told which message to use
EncodeSelectors ==
    {[messages |-> <<>>, message |-> <<m>>] : m \in Msgs}
    \cup {[messages |-> r, message |-> <<>>] : r \in Registries}

\* the ways decode_message is told which message to use
DecodeSelectors ==
    {[messages |-> <<>>, message |-> <<m>>, name |-> "", direction |-> "",
      message_key |-> None] : m \in Msgs}
    \cup {[messages |-> r, message |-> <<>>, name |-> m.name,
           direction |-> "", message_key |-> None] :
            r \in Registries \ {<<>>}, m \in {MsgUint, MsgDown}}
    \cup {[messages |-> r, message |-> <<>>, name |-> "", direction |-> d,
           message_key |-> k] :
            r \in Registries \ {<<>>}, d \in MessageDirections \cup {""},
            k \in {None, 0, 49153}}

\* the longest Messages list that is built
MaxMessages == 3

ListNames == {"m1", "m2"}

\* the codecs handed to the list operations: a Message, one of another
\* name with its (message_key, direction) pair, one of its name with
\* another direction, one with another key, and a Field, which is no
\* Message
ListCodecs ==
    {Message("m1", "UPLINK", 49152, <<>>),
     Message("m2", "UPLINK", 49152, <<>>),
     Message("m1", "DOWNLINK", 49152, <<>>),
     Message("m2", "UPLINK", 49153, <<>>),
     UintField("m1", 4, FALSE, "")}

\* the keys a Message is constructed with: the ends of the ranges of the
\* three flags, and the two nearest values that are no 16-bit integers
MessageKeys ==
    {0 - 1, 0, 32767, 32768, 49151, 49152, 65279, 65280, 65535, 65536}

\* list indexes, some of them out of range
ListIndexes == (0 - 1)..MaxMessages

\* ------------------------------------------------------------------------
\* The state: one call at a time.  An encode call leaves its result in
\* buffer/offset (field codecs) or wire (encode_message); a decode call
\* reads what the encode left, or what was received; removed is the
\* number of trailing bytes that the wire lost on the way.  messages is a
\* Messages list that the application builds, and listop the last
\* operation on it.
\* ------------------------------------------------------------------------
VARIABLES pc, enc, dec, buffer, offset, wire, removed, messages, listop

vars ==
    <<pc, enc, dec, buffer, offset, wire, removed, messages, listop>>

NoCall == [op |-> "none", ok |-> FALSE]

Init ==
    /\ pc = "idle"
    /\ enc = NoCall
    /\ dec = NoCall
    /\ buffer = <<>>
    /\ offset = 0
    /\ wire = Wire(None, <<>>)
    /\ removed = 0
    /\ messages = <<>>
    /\ listop = NoCall

\* a field encoder encode(field, value, buffer, offset) returned r, or
\* raised: call holds the arguments.  The value argument is recorded under
\* the name of its Python type (int_value, str_value, bytes_value,
\* dict_value), so that a field of enc and dec has one type in all states.
FieldEncodeCall(call, r) ==
    /\ enc' = [call EXCEPT !.ok = r.ok]
    /\ buffer' = r.buffer
    /\ offset' = IF r.ok THEN r.offset ELSE call.offset0
    /\ pc' = "encoded"
    /\ UNCHANGED <<dec, wire, removed, messages, listop>>

UintEncodeCall ==
    /\ pc = "idle"
    /\ \E field \in UintFields \cup UintFieldsMinMax, value \in UintInputs,
          buffer0 \in Buffers, offset0 \in Offsets :
           FieldEncodeCall([op |-> "uint.encode", field |-> field,
                            int_value |-> value, buffer0 |-> buffer0,
                            offset0 |-> offset0, ok |-> FALSE],
                           UintEncode(field, value, buffer0, offset0))

\* payload: the bytes the call hands to append_bytes_to_buffer
StringEncodeCall ==
    /\ pc = "idle"
    /\ \E field \in StringFields, value \in Strings(MaxStrLen + 1),
          buffer0 \in Buffers, offset0 \in Offsets :
           FieldEncodeCall([op |-> "string.encode", field |-> field,
                            str_value |-> value, buffer0 |-> buffer0,
                            offset0 |-> offset0, ok |-> FALSE,
                            payload |-> Utf8Encode(StringValue(field, value))],
                           StringEncode(field, value, buffer0, offset0))

DataEncodeCall ==
    /\ pc = "idle"
    /\ \E field \in DataFields, value \in Datas(MaxStrLen + 1),
          buffer0 \in Buffers, offset0 \in Offsets :
           FieldEncodeCall([op |-> "data.encode", field |-> field,
                            bytes_value |-> value, buffer0 |-> buffer0,
                            offset0 |-> offset0, ok |-> FALSE,
                            payload |-> DataValue(field, value)],
                           DataEncode(field, value, buffer0, offset0))

BmaEncodeCall ==
    /\ pc = "idle"
    /\ \E field \in BmaFields, value \in BmaValues,
          buffer0 \in Buffers, offset0 \in {0, 3, 8} :
           FieldEncodeCall([op |-> "bitmaskarray.encode", field |-> field,
                            dict_value |-> value, buffer0 |-> buffer0,
                            offset0 |-> offset0, ok |-> FALSE],
                           BmaEncode(field, value, buffer0, offset0))

\* the uint decoder reads back, at the same offset, what encode wrote
UintDecoded(r) ==
    /\ dec' = [op |-> "uint.decode", ok |-> r.ok, int_value |-> r.value,
               offset |-> r.offset]
    /\ pc' = "decoded"
    /\ UNCHANGED <<enc, buffer, offset, wire, removed, messages, listop>>

UintDecodeCall ==
    /\ pc = "encoded" /\ enc.op = "uint.encode" /\ enc.ok
    /\ UintDecoded(UintDecode(enc.field, buffer, enc.offset0))

\* the string decoder reads back, at the same offset, what encode wrote
StringDecoded(r) ==
    /\ dec' = [op |-> "string.decode", ok |-> r.ok,
               str_value |-> IF r.ok THEN r.value ELSE <<>>,
               offset |-> r.offset]
    /\ pc' = "decoded"
    /\ UNCHANGED <<enc, buffer, offset, wire, removed, messages, listop>>

StringDecodeCall ==
    /\ pc = "encoded" /\ enc.op = "string.encode" /\ enc.ok
    /\ StringDecoded(StringDecode(enc.field, buffer, enc.offset0))

\* the data decoder reads back, at the same offset, what encode wrote;
\* the value comes back as an int (int_value) or as bytes (bytes_value)
DataDecoded(r) ==
    /\ dec' = [op |-> "data.decode", ok |-> r.ok, returns |-> r.returns,
               int_value |-> r.value, bytes_value |-> r.bytes,
               offset |-> r.offset]
    /\ pc' = "decoded"
    /\ UNCHANGED <<enc, buffer, offset, wire, removed, messages, listop>>

DataDecodeCall ==
    /\ pc = "encoded" /\ enc.op = "data.encode" /\ enc.ok
    /\ DataDecoded(DataDecode(enc.field, buffer, enc.offset0))

\* the bitmaskarray decoder on a received buffer; it returned r
BmaDecoded(field, buffer0, offset0, r) ==
    /\ dec' = [op |-> "bitmaskarray.decode", field |-> field,
               buffer0 |-> buffer0, offset0 |-> offset0, ok |-> r.ok,
               dict_value |-> IF r.ok THEN r.value ELSE <<>>,
               offset |-> r.offset]
    /\ pc' = "decoded"
    /\ UNCHANGED <<enc, buffer, offset, wire, removed, messages, listop>>

BmaDecodeCall ==
    /\ pc = "idle"
    /\ \E field \in BmaFields, buffer0 \in BmaBuffers, offset0 \in {0, 3} :
           BmaDecoded(field, buffer0, offset0,
                      BmaDecode(field, buffer0, offset0))

StructEncodeCall ==
    /\ pc = "idle"
    /\ \E field \in StructFields, buffer0 \in Buffers, offset0 \in Offsets :
        \E value \in StructValues(field) :
           FieldEncodeCall([op |-> "struct.encode", field |-> field,
                            map_value |-> value, buffer0 |-> buffer0,
                            offset0 |-> offset0, ok |-> FALSE],
                           StructEncode(field, value, buffer0, offset0))

\* the struct decoder reads back, at the same offset, what encode wrote
StructDecoded(r) ==
    /\ dec' = [op |-> "struct.decode", ok |-> r.ok,
               map_value |-> IF r.ok THEN r.value ELSE <<>>,
               offset |-> r.offset]
    /\ pc' = "decoded"
    /\ UNCHANGED <<enc, buffer, offset, wire, removed, messages, listop>>

StructDecodeCall ==
    /\ pc = "encoded" /\ enc.op = "struct.encode" /\ enc.ok
    /\ StructDecoded(StructDecode(enc.field, buffer, enc.offset0))

\* encode_field_length(length, buffer, offset) on its own
LengthEncodeCall ==
    /\ pc = "idle"
    /\ \E c \in LengthCalls :
           FieldEncodeCall([op |-> "encode_field_length", length |-> c.length,
                            buffer0 |-> c.buffer0, offset0 |-> c.offset0,
                            ok |-> FALSE],
                           encode_field_length(c.length, c.buffer0, c.offset0))

\* a reader of the length prefix returned r
LengthDecoded(op, r) ==
    /\ dec' = [op |-> op, ok |-> r.ok, int_value |-> r.value,
               offset |-> r.offset]
    /\ pc' = "decoded"
    /\ UNCHANGED <<enc, buffer, offset, wire, removed, messages, listop>>

\* decode_field_length reads back, at the same offset, the prefix that
\* encode_field_length wrote
LengthDecodeCall ==
    /\ pc = "encoded" /\ enc.op = "encode_field_length" /\ enc.ok
    /\ LengthDecoded("decode_field_length",
                     decode_field_length(buffer, enc.offset0))

\* what parse_field_length returned, ok when the length is not None
Parsed(r) == [ok |-> r.value /= None, value |-> r.value, offset |-> r.offset]

\* the NIMO parser reads the same prefix
ParseFieldLengthCall ==
    /\ pc = "encoded" /\ enc.op = "encode_field_length" /\ enc.ok
    /\ LengthDecoded("parse_field_length",
                     Parsed(ParseFieldLength(buffer, enc.offset0)))

\* append_bytes_to_buffer(data, buffer0, offset0)
AppendBytesCall ==
    /\ pc = "idle"
    /\ \E data \in AppendDatas, buffer0 \in AppendBuffers,
          offset0 \in Offsets :
           FieldEncodeCall([op |-> "append_bytes_to_buffer",
                            bytes_value |-> data, buffer0 |-> buffer0,
                            offset0 |-> offset0, ok |-> FALSE],
                           Appended(AppendBytesToBuffer(data, buffer0,
                                                        offset0),
                                    offset0, offset0 + 8 * Len(data)))

\* extract_from_buffer(buffer0, offset0, length, signed) as an int
ExtractCall ==
    /\ pc = "idle"
    /\ \E buffer0 \in ExtractBuffers, offset0 \in ExtractOffsets,
          length \in ExtractLengths, signed \in BOOLEAN :
           LET r == ExtractFromBuffer(buffer0, offset0, length, signed, FALSE)
           IN  /\ dec' = [op |-> "extract_from_buffer", buffer0 |-> buffer0,
                          offset0 |-> offset0, length |-> length,
                          signed |-> signed, ok |-> r.ok,
                          int_value |-> r.value]
               /\ pc' = "decoded"
               /\ UNCHANGED <<enc, buffer, offset, wire, removed, messages,
                              listop>>

\* encode_message returned r
EncodeMessageDone(content, sel, nim, coap, r) ==
    /\ enc' = [op |-> "encode_message", content |-> content,
               messages |-> sel.messages, message |-> sel.message,
               nim |-> nim, coap |-> coap, ok |-> r.ok]
    /\ wire' = r.wire
    /\ pc' = "encoded"
    /\ UNCHANGED <<dec, buffer, offset, removed, messages, listop>>

EncodeMessageCall ==
    /\ pc = "idle"
    /\ \E content \in Contents, sel \in EncodeSelectors,
          nim \in BOOLEAN, coap \in BOOLEAN :
           EncodeMessageDone(content, sel, nim, coap,
                             EncodeMessage(content, sel.messages, sel.message,
                                           nim, coap))

\* bytes, or a CoAP datagram, arrive from the network
Receive ==
    /\ pc = "idle"
    /\ \E w \in ReceivedWires : wire' = w
    /\ pc' = "received"
    /\ UNCHANGED <<enc, dec, buffer, offset, removed, messages, listop>>

\* the bytes that encode_message returned lose trailing bytes on their
\* way; removed counts them
Truncate ==
    /\ pc = "encoded" /\ enc.op = "encode_message" /\ enc.ok
    /\ wire.mid = None
    /\ \E k \in 1..Len(wire.bytes) :
        /\ wire' = Wire(None, SubSeq(wire.bytes, 1, Len(wire.bytes) - k))
        /\ removed' = k
    /\ pc' = "truncated"
    /\ UNCHANGED <<enc, dec, buffer, offset, messages, listop>>

\* decode_message returned r
DecodeMessageDone(sel, nim, coap, r) ==
    /\ dec' = [op |-> "decode_message", messages |-> sel.messages,
               message |-> sel.message, name |-> sel.name,
               direction |-> sel.direction, message_key |-> sel.message_key,
               nim |-> nim, coap |-> coap, ok |-> r.ok,
               result |-> [name |-> r.name, value |-> r.value],
               key |-> r.key, offset |-> r.offset]
    /\ pc' = "decoded"
    /\ UNCHANGED <<enc, buffer, offset, wire, removed, messages, listop>>

\* decode_message is called on what is on the wire.  A CoAP datagram is
\* decoded with coap=True and plain bytes without it, unless nim is set
\* too and the call raises before it looks at the buffer.
DecodeMessageCall ==
    /\ \/ pc = "received"
       \/ pc = "truncated"
       \/ pc = "encoded" /\ enc.op = "encode_message" /\ enc.ok
    /\ \E sel \in DecodeSelectors, nim \in BOOLEAN, coap \in BOOLEAN :
        /\ (wire.mid /= None) => coap
        /\ (wire.mid = None /\ coap) => nim
        /\ DecodeMessageDone(sel, nim, coap,
                             DecodeMessage(wire, sel.messages, sel.message,
                                           sel.name, sel.direction,
                                           sel.message_key, nim, coap))

\* the caller is done with the results
Return ==
    /\ pc /= "idle"
    /\ pc' = "idle"
    /\ enc' = NoCall
    /\ dec' = NoCall
    /\ buffer' = <<>>
    /\ offset' = 0
    /\ wire' = Wire(None, <<>>)
    /\ removed' = 0
    /\ UNCHANGED <<messages, listop>>

\* a list operation returned (or raised): listop holds its arguments and
\* the list before it
ListCall(call, r) ==
    /\ listop' = call @@ [ok |-> r.ok, before |-> messages]
    /\ messages' = r.list
    /\ UNCHANGED <<pc, enc, dec, buffer, offset, wire, removed>>

\* messages.append(codec)
AppendCall ==
    /\ Len(messages) < MaxMessages
    /\ \E codec \in ListCodecs :
           ListCall([op |-> "append", codec |-> codec],
                    MessagesAppend(messages, codec))

\* messages.remove(name)
RemoveCall ==
    \E name \in ListNames :
        ListCall([op |-> "remove", name |-> name],
                 ListRemove(messages, name))

\* messages[index] = codec
SetItemByIndexCall ==
    \E index \in ListIndexes, codec \in ListCodecs :
        ListCall([op |-> "setitem", index |-> index, codec |-> codec],
                 SetItemByIndex(messages, index, codec))

\* messages[name] = codec
SetItemByNameCall ==
    \E name \in ListNames, codec \in ListCodecs :
        ListCall([op |-> "setitem.name", name |-> name, codec |-> codec],
                 SetItemByName(messages, name, codec))

\* BitArray.from_int(value, length)
FromIntCall ==
    /\ pc = "idle"
    /\ \E value \in FromIntValues, length \in FromIntLengths :
           LET r == FromInt(value, length)
           IN  dec' = [op |-> "from_int", int_value |-> value,
                       length |-> length, ok |-> r.ok, bits |-> r.bits]
    /\ pc' = "decoded"
    /\ UNCHANGED <<enc, buffer, offset, wire, removed, messages, listop>>

\* field.enum = keys_values on a bitmaskarray field of that size
BmaSetEnumCall ==
    /\ pc = "idle"
    /\ \E size \in (MaxUintSize - 1)..MaxUintSize, keys_values \in BmaEnums :
           enc' = [op |-> "enum", size |-> size, enum |-> keys_values,
                   ok |-> BmaSetEnum(size, keys_values)]
    /\ pc' = "constructed"
    /\ UNCHANGED <<dec, buffer, offset, wire, removed, messages, listop>>

\* Message(name, direction=..., message_key=key, fields=Fields(),
\* coap_compatible=..., vsat_reserved=..., nimo_compatible=...), or the
\* assignment of key to the message_key of such a Message: the same
\* setter runs
NewMessageCall ==
    /\ pc = "idle"
    /\ \E key \in MessageKeys, coap \in BOOLEAN, vsat \in BOOLEAN,
          nimo \in BOOLEAN :
           enc' = [op |-> "Message", key |-> key,
                   coap_compatible |-> coap, vsat_reserved |-> vsat,
                   nimo_compatible |-> nimo]
                  @@ SetMessageKey(coap, vsat, nimo, key)
    /\ pc' = "constructed"
    /\ UNCHANGED <<dec, buffer, offset, wire, removed, messages, listop>>

Next ==
    \/ UintEncodeCall
    \/ UintDecodeCall
    \/ StringEncodeCall
    \/ StringDecodeCall
    \/ DataEncodeCall
    \/ DataDecodeCall
    \/ BmaEncodeCall
    \/ BmaDecodeCall
    \/ StructEncodeCall
    \/ StructDecodeCall
    \/ LengthEncodeCall
    \/ LengthDecodeCall
    \/ ParseFieldLengthCall
    \/ ExtractCall
    \/ AppendBytesCall
    \/ NewMessageCall
    \/ BmaSetEnumCall
    \/ FromIntCall
    \/ EncodeMessageCall
    \/ Receive
    \/ Truncate
    \/ DecodeMessageCall
    \/ Return

Spec == Init /\ [][Next]_vars

\* the application builds its Messages list
NextMessages ==
    \/ AppendCall
    \/ RemoveCall
    \/ SetItemByIndexCall
    \/ SetItemByNameCall

SpecMessages == Init /\ [][NextMessages]_vars

\* A writer that starts from bytearray() and offset 0 and appends each
\* time at the offset where its last append ended, as the field encoders
\* do with the (buffer, offset) they return.
AppendedAtCursor(call, r, length) ==
    /\ enc' = call @@ [ok |-> r.ok, buffer0 |-> buffer, offset0 |-> offset]
    /\ buffer' = r.buffer
    /\ offset' = IF r.ok THEN offset + length ELSE offset
    /\ UNCHANGED <<pc, dec, wire, removed, messages, listop>>

\* buffer = append_bits_to_buffer(bits, buffer, offset)
AppendBitsAtCursor ==
    \E bits \in CursorBits :
        /\ offset + Len(bits) <= MaxCursor
        /\ AppendedAtCursor([op |-> "append_bits_to_buffer",
                             bits_value |-> bits],
                            AppendBitsToBuffer(bits, buffer, offset),
                            Len(bits))

\* buffer = append_bytes_to_buffer(data, buffer, offset)
AppendBytesAtCursor ==
    \E data \in CursorDatas :
        /\ offset + 8 * Len(data) <= MaxCursor
        /\ AppendedAtCursor([op |-> "append_bytes_to_buffer",
                             bytes_value |-> data],
                            AppendBytesToBuffer(data, buffer, offset),
                            8 * Len(data))

NextCursor ==
    \/ AppendBitsAtCursor
    \/ AppendBytesAtCursor

SpecCursor == Init /\ [][NextCursor]_vars

\* ------------------------------------------------------------------------
\* The properties
\* ------------------------------------------------------------------------
\* the call encode_message({name: M.name, value: v}, message=M) with v
\* conforming to M's field list, raw or with nim=True
C1_Conforming ==
    /\ enc.op = "encode_message"
    /\ enc.messages = <<>> /\ enc.message /= <<>>
    /\ ~enc.coap
    /\ enc.content.name = enc.message[1].name
    /\ enc.content.value \in Conforming(enc.message[1].fields)

\* C1: message round trip.  For every message M and every value v that
\* conforms to M's field list, encode_message(..., message=M) succeeds and
\* decode_message of its output with message=M returns {name: M.name,
\* value: v}; the same with nim=True in both calls.
C1_RoundTrip ==
    /\ (pc = "encoded" /\ C1_Conforming) => enc.ok
    /\ (/\ pc = "decoded" /\ C1_Conforming /\ removed = 0
        /\ dec.op = "decode_message"
        /\ dec.messages = <<>> /\ dec.message = enc.message
        /\ dec.nim = enc.nim /\ ~dec.coap)
       => dec.ok /\ dec.result = enc.content

\* the message encode_message resolved
C2_Message ==
    IF enc.message /= <<>> THEN enc.message
    ELSE ByName(enc.messages, enc.content.name)

\* the framed output against raw, what the call returns without flags
C2_Framed(raw, message) ==
    /\ enc.ok = raw.ok
    /\ enc.ok =>
        /\ message /= <<>>
        /\ IF enc.nim
           THEN wire = Wire(None, <<message[1].message_key \div 256,
                                    message[1].message_key % 256>>
                                  \o raw.wire.bytes)
           ELSE wire = Wire(message[1].message_key, raw.wire.bytes)

\* C2: framing never changes the payload.  encode_message with nim=True
\* returns the two big-endian bytes of the message key followed by exactly
\* the bytes it returns without a framing flag, and with coap=True a CoAP
\* message whose mid is the message key and whose payload is those bytes.
C2_FramingKeepsPayload ==
    (pc = "encoded" /\ enc.op = "encode_message" /\ enc.nim /= enc.coap)
    => C2_Framed(EncodeMessage(enc.content, enc.messages, enc.message,
                               FALSE, FALSE),
                 C2_Message)

\* a nim-framed message with a payload after the key bytes
C2_Witness ==
    /\ pc = "encoded" /\ enc.op = "encode_message" /\ enc.ok
    /\ enc.nim /\ ~enc.coap
    /\ Len(wire.bytes) > 2
    /\ \E i \in 3..Len(wire.bytes) : wire.bytes[i] /= 0

\* the message decode_message was given, directly or by name
C3_Given ==
    IF dec.message /= <<>> THEN dec.message
    ELSE IF dec.name /= "" THEN ByName(dec.messages, dec.name)
    ELSE <<>>

\* the key the envelope carries
C3_EnvelopeKey ==
    IF dec.nim THEN wire.bytes[1] * 256 + wire.bytes[2] ELSE wire.mid

\* C3: key mismatch is always detected.  When decode_message is given a
\* message (directly or by name) with nim=True or coap=True and the key
\* of the envelope differs from message.message_key, the call fails, for
\* every envelope key in 0..65535.
C3_MismatchDetected ==
    (/\ pc = "decoded" /\ dec.op = "decode_message"
     /\ dec.nim /= dec.coap
     /\ dec.nim => Len(wire.bytes) >= 2
     /\ C3_Given /= <<>>
     /\ C3_EnvelopeKey /= C3_Given[1].message_key)
    => ~dec.ok

\* the call decode_message(buffer, messages=R, direction=d, nim=True)
C4_Dispatch ==
    /\ pc = "decoded" /\ dec.op = "decode_message"
    /\ dec.message = <<>> /\ dec.name = "" /\ dec.message_key = None
    /\ dec.nim /\ ~dec.coap
    /\ dec.direction \in MessageDirections
    /\ Len(wire.bytes) >= 2

\* the messages of R with the key of buffer bytes 0-1 and direction d
C4_Matches ==
    {i \in DOMAIN dec.messages :
        /\ dec.messages[i].message_key = wire.bytes[1] * 256 + wire.bytes[2]
        /\ dec.messages[i].direction = dec.direction}

\* the call decoded with message m, whose fields read from bit 16 give d
C4_DecodedWith(m, d) ==
    /\ dec.ok = d.ok
    /\ dec.ok => /\ dec.result = [name |-> m.name, value |-> d.value]
                 /\ dec.key = m.message_key
                 /\ dec.offset = 16

\* C4: dispatch by envelope key.  decode_message(buffer, messages=R,
\* direction=d, nim=True) decodes with the one message of R whose key is
\* the big-endian value of buffer bytes 0-1 and whose direction is d,
\* reading the fields from bit 16; it fails if R holds no such message.
C4_DispatchByKey ==
    C4_Dispatch =>
        /\ Cardinality(C4_Matches) <= 1
        /\ C4_Matches = {} => ~dec.ok
        /\ \A i \in C4_Matches :
            C4_DecodedWith(dec.messages[i],
                           decode_fields(dec.messages[i].fields,
                                         wire.bytes, 16))

\* a DOWNLINK message found by its key in a list that holds an UPLINK
\* message of the same key before it
C4_Witness ==
    /\ C4_Dispatch /\ dec.ok
    /\ dec.direction = "DOWNLINK"
    /\ dec.result.name = "mDown"
    /\ \E i \in DOMAIN dec.messages :
        /\ dec.messages[i].direction = "UPLINK"
        /\ dec.messages[i].message_key = dec.key

\* C5: the framing flags are mutually exclusive.  Every call of
\* encode_message or decode_message with nim=True and coap=True fails and
\* produces no output.
C5_FlagsExclusive ==
    /\ (pc = "encoded" /\ enc.op = "encode_message" /\ enc.nim /\ enc.coap)
       => ~enc.ok /\ wire = Wire(None, <<>>)
    /\ (pc = "decoded" /\ dec.op = "decode_message" /\ dec.nim /\ dec.coap)
       => ~dec.ok /\ dec.result = [name |-> "", value |-> <<>>]

\* both flags in a call whose other arguments are valid
C5_Witness ==
    /\ pc = "encoded" /\ enc.op = "encode_message"
    /\ enc.nim /\ enc.coap
    /\ enc.message = <<MsgUint>>
    /\ enc.content.name = "mUint"
    /\ DOMAIN enc.content.value = {"x"}

\* the start offset lies within the buffer or at its end, where
\* append_bits_to_buffer accepts it (an empty bytearray first gets one byte)
OffsetInBuffer ==
    enc.offset0 <= 8 * (IF enc.buffer0 = <<>> THEN 1 ELSE Len(enc.buffer0))

\* C6: uint range.  For a uint field of size s, with or without encalc,
\* encode succeeds if and only if the value after encalc (the input itself
\* without encalc) lies in 0..2^s-1; nothing else is ever written.
C6_UintRange ==
    (pc = "encoded" /\ enc.op = "uint.encode" /\ OffsetInBuffer)
    => (enc.ok <=> UintCalc(enc.field, enc.int_value) \in 0..(2^enc.field.size - 1))

\* a call of the uint encoder without calc and with a value in range
C7_Call ==
    /\ enc.op = "uint.encode"
    /\ enc.field.encalc = ""
    /\ enc.int_value \in 0..(2^enc.field.size - 1)

\* bits o..o+s-1 of the buffer, MSB first, as an unsigned integer
C7_BitsAt(o, s) == BitsToInt(SubSeq(FromBytes(buffer), o + 1, o + s))

\* what C7 says of a call: encode returns o+s and a buffer holding v in
\* bits o..o+s-1, and decode at o returns (v, o+s)
C7_WireForm ==
    /\ pc = "encoded" =>
        /\ enc.ok
        /\ offset = enc.offset0 + enc.field.size
        /\ Len(buffer) * 8 >= offset
        /\ C7_BitsAt(enc.offset0, enc.field.size) = enc.int_value
    /\ (pc = "decoded" /\ dec.op = "uint.decode") =>
        /\ dec.ok
        /\ dec.int_value = enc.int_value
        /\ dec.offset = enc.offset0 + enc.field.size

\* C7 as written: uint wire form at every start offset o, on every
\* buffer.
C7_UintWireFormAnyOffset == C7_Call => C7_WireForm

\* C7, amended: uint wire form at any bit offset that lies within the
\* buffer or at its end (o <= 8 * max(1, len(buffer))), aligned or not.
\* For a uint field of size s without calc and every v in 0..2^s-1,
\* encode returns offset o+s and a buffer whose bits o..o+s-1, MSB first,
\* equal v, and decode at o returns (v, o+s).
C7_UintWireForm == (C7_Call /\ OffsetInBuffer) => C7_WireForm

\* a value with zero bits decoded from a misaligned offset of a buffer
\* that held ones there
C7_Witness ==
    /\ pc = "decoded" /\ dec.op = "uint.decode" /\ C7_Call
    /\ enc.buffer0 = <<255>> /\ enc.offset0 = 6
    /\ enc.field.size = 4 /\ enc.int_value = 5
    /\ dec.ok /\ dec.int_value = 5

\* the bit of the buffer at position pos (0-based)
C8_Bit(bytes, pos) == FromBytes(bytes)[pos + 1]

\* the wire width of a present field's own bits
C8_Width(field, v) ==
    IF field.type = "uint" THEN field.size
    ELSE IF field.fixed THEN 8 * field.size
    ELSE LengthPrefixBits(Len(Utf8Encode(v))) + 8 * Len(Utf8Encode(v))

\* the presence bits of a field list, from bit pos of bytes: one bit
\* before each optional field, 1 if its name is in content
RECURSIVE C8_Layout(_, _, _, _)
C8_Layout(fields, content, bytes, pos) ==
    IF fields = <<>> THEN TRUE
    ELSE IF ~Head(fields).optional
    THEN C8_Layout(Tail(fields), content, bytes,
                   pos + C8_Width(Head(fields), content[Head(fields).name]))
    ELSE IF Head(fields).name \notin DOMAIN content
    THEN /\ Len(bytes) * 8 > pos
         /\ C8_Bit(bytes, pos) = 0
         /\ C8_Layout(Tail(fields), content, bytes, pos + 1)
    ELSE /\ Len(bytes) * 8 > pos
         /\ C8_Bit(bytes, pos) = 1
         /\ C8_Layout(Tail(fields), content, bytes,
                      pos + 1
                      + C8_Width(Head(fields), content[Head(fields).name]))

\* a bitmaskarray value with rows for a field with one optional column:
\* its keys are enum values and its rows map the column's name, or nothing
C8_RowsOfOneOptionalColumn ==
    /\ enc.op = "bitmaskarray.encode"
    /\ OffsetInBuffer
    /\ Len(enc.field.fields) = 1 /\ enc.field.fields[1].optional
    /\ \E i \in DOMAIN enc.dict_value : enc.dict_value[i].rows /= <<>>
    /\ \A i \in DOMAIN enc.dict_value :
        /\ enc.dict_value[i].key \in EnumValues(enc.field)
        /\ \A j \in DOMAIN enc.dict_value[i].rows :
            DOMAIN enc.dict_value[i].rows[j]
                \subseteq {enc.field.fields[1].name}

\* the rows of a bitmaskarray value, in order
RECURSIVE C8_Rows(_)
C8_Rows(value) ==
    IF value = <<>> THEN <<>> ELSE Head(value).rows \o C8_Rows(Tail(value))

\* the bits of the rows: per row one presence bit and, if the column is
\* present, the column's bits
RECURSIVE C8_RowBits(_, _)
C8_RowBits(col, rows) ==
    IF rows = <<>> THEN 0
    ELSE 1 + (IF col.name \in DOMAIN Head(rows)
              THEN C8_Width(col, Head(rows)[col.name]) ELSE 0)
         + C8_RowBits(col, Tail(rows))

\* C8: presence law.  For every optional field of a field list (of a
\* message, or of a row of a bitmaskarray) encode emits exactly one
\* presence bit right before the field's own bits, 1 if the field's name
\* is in the input mapping and 0 otherwise; an absent field contributes
\* no further bits, and decode omits absent fields from the mapping.
C8_PresenceLaw ==
    /\ (pc = "encoded" /\ C1_Conforming /\ ~enc.nim /\ enc.ok)
       => C8_Layout(enc.message[1].fields, enc.content.value, wire.bytes, 0)
    /\ (/\ pc = "decoded" /\ C1_Conforming /\ dec.op = "decode_message"
        /\ removed = 0
        /\ dec.messages = <<>> /\ dec.message = enc.message
        /\ dec.nim = enc.nim /\ ~dec.coap /\ dec.ok)
       => DOMAIN dec.result.value = DOMAIN enc.content.value
    /\ (pc = "encoded" /\ C8_RowsOfOneOptionalColumn)
       => /\ enc.ok
          /\ offset = enc.offset0 + enc.field.size
                      + C8_RowBits(enc.field.fields[1],
                                   C8_Rows(enc.dict_value))

\* C9: variable-width bit-length law.  For a non-fixed string or data
\* field, encode advances the bit cursor by length_prefix_bits(n) + 8*n
\* with n the number of payload bytes written (the UTF-8 bytes of a
\* string), and the length prefix carries that n.
C9_BitLength ==
    (/\ pc = "encoded" /\ enc.op \in {"string.encode", "data.encode"}
     /\ ~enc.field.fixed /\ enc.ok)
    => /\ offset - enc.offset0
          = LengthPrefixBits(Len(enc.payload)) + 8 * Len(enc.payload)
       /\ C7_BitsAt(enc.offset0, 8) = Len(enc.payload)

\* a call of the string encoder of C10: a non-fixed field of size s, a
\* string of at most s characters, offset 0..7 on an empty buffer
C10_Call ==
    /\ enc.op = "string.encode"
    /\ ~enc.field.fixed
    /\ Len(enc.str_value) <= enc.field.size
    /\ enc.offset0 \in 0..7 /\ enc.buffer0 = <<>>

\* C10: string round trip at any offset.  For a non-fixed string field of
\* size s, every string v of 0..s characters and every start offset o in
\* 0..7 on an empty buffer, decode(encode(v, buffer, o), o) returns v and
\* the end offset that encode returned.
C10_StringRoundTrip ==
    /\ (pc = "encoded" /\ C10_Call) => enc.ok
    /\ (pc = "decoded" /\ dec.op = "string.decode" /\ C10_Call)
       => dec.ok /\ dec.str_value = enc.str_value /\ dec.offset = offset

\* a call of the data encoder of C11: a non-fixed field of size s and a
\* byte sequence of at most s bytes, at an offset the buffer accepts
C11_Call ==
    /\ enc.op = "data.encode"
    /\ ~enc.field.fixed
    /\ Len(enc.bytes_value) <= enc.field.size
    /\ OffsetInBuffer

\* C11: data round trip.  For a non-fixed data field of size s and every
\* byte sequence v with len(v) <= s, also one that begins with 0x00
\* bytes, decoding what encode wrote returns the same byte sequence v, of
\* the same length, and the end offset that encode returned.
C11_DataRoundTrip ==
    /\ (pc = "encoded" /\ C11_Call) => enc.ok
    /\ (pc = "decoded" /\ dec.op = "data.decode" /\ C11_Call)
       => /\ dec.ok
          /\ dec.returns = "bytes"
          /\ dec.bytes_value = enc.bytes_value
          /\ dec.offset = offset

\* a call of the string or data encoder on a fixed field
C12_Call ==
    /\ enc.op \in {"string.encode", "data.encode"}
    /\ enc.field.fixed

\* the value truncated to s bytes and right-padded with 0x20 (string) or
\* 0x00 (data)
C12_Bytes ==
    IF enc.op = "string.encode"
    THEN PadTo(Truncated(Utf8Encode(enc.str_value), enc.field.size),
               enc.field.size, 32)
    ELSE PadTo(Truncated(enc.bytes_value, enc.field.size), enc.field.size, 0)

\* C12: fixed string/data layout.  For a string or data field with
\* fixed=true and size s, encode writes no length prefix and exactly s
\* bytes, the value truncated to s bytes and right-padded with 0x20
\* (string) or 0x00 (data), and advances the cursor by exactly 8*s bits
\* for every input value.
C12_FixedLayout ==
    (pc = "encoded" /\ C12_Call)
    => /\ enc.ok
       /\ Len(enc.payload) = enc.field.size
       /\ enc.payload = C12_Bytes
       /\ offset = enc.offset0 + 8 * enc.field.size
       /\ enc.buffer0 = <<>> =>
            /\ Len(buffer) * 8 >= offset
            /\ BitsToBytes(SubSeq(FromBytes(buffer), enc.offset0 + 1, offset))
               = C12_Bytes

\* the number of characters or bytes of the value handed to the encoder
C13_Length ==
    IF enc.op = "string.encode" THEN Len(enc.str_value)
    ELSE Len(enc.bytes_value)

\* C13: excess is rejected for variable-length fields.  Encoding a value
\* longer than size into a string or data field that is not fixed fails
\* with an error; only fixed fields truncate.
C13_ExcessRejected ==
    (/\ pc = "encoded" /\ enc.op \in {"string.encode", "data.encode"}
     /\ ~enc.field.fixed /\ C13_Length > enc.field.size)
    => ~enc.ok

\* the prefix of length n as C14 describes it, at bit o of the buffer:
\* the flag, then n in 7 or 15 bits
C14_Prefix(n, o) ==
    IF n < 128
    THEN /\ offset = o + 8
         /\ Len(buffer) * 8 >= offset
         /\ C8_Bit(buffer, o) = 0
         /\ C7_BitsAt(o + 1, 7) = n
    ELSE /\ offset = o + 16
         /\ Len(buffer) * 8 >= offset
         /\ C8_Bit(buffer, o) = 1
         /\ C7_BitsAt(o + 1, 15) = n

\* C14: length prefix.  For every length n in 0..32767 the encoder
\* writes flag 0 and 7 bits when n < 128 and flag 1 and 15 bits
\* otherwise; decoding the prefix (decode_field_length, and the NIMO
\* parse_field_length) returns n and advances the bit cursor by 8 in the
\* first case and 16 in the second.
C14_LengthPrefix ==
    (enc.op = "encode_field_length" /\ OffsetInBuffer)
    => /\ pc = "encoded" => (enc.ok /\ C14_Prefix(enc.length, enc.offset0))
       /\ pc = "decoded"
          => /\ dec.ok
             /\ dec.int_value = enc.length
             /\ dec.offset = offset
             /\ dec.offset - enc.offset0 = LengthPrefixBits(enc.length)

\* the 15-bit form read by the NIMO parser from a misaligned offset of a
\* buffer that held ones there
C14_Witness ==
    /\ pc = "decoded" /\ dec.op = "parse_field_length"
    /\ enc.op = "encode_field_length" /\ enc.length = 128
    /\ enc.buffer0 = <<255>> /\ enc.offset0 = 7
    /\ dec.int_value = 128 /\ dec.offset = 23

\* the mapping contains all the non-optional inner fields of the struct
C15_HasRequired ==
    \A i \in DOMAIN enc.field.fields :
        enc.field.fields[i].optional
        \/ enc.field.fields[i].name \in DOMAIN enc.map_value

\* the inner uint fields in declaration order from bit pos of the buffer:
\* a presence bit before an optional one, then the value in size bits
RECURSIVE C15_InOrder(_, _, _)
C15_InOrder(fields, content, pos) ==
    IF fields = <<>> THEN offset = pos
    ELSE IF Head(fields).name \notin DOMAIN content
    THEN /\ C8_Bit(buffer, pos) = 0
         /\ C15_InOrder(Tail(fields), content, pos + 1)
    ELSE /\ Head(fields).optional => C8_Bit(buffer, pos) = 1
         /\ C7_BitsAt(pos + (IF Head(fields).optional THEN 1 ELSE 0),
                      Head(fields).size)
            = content[Head(fields).name]
         /\ C15_InOrder(Tail(fields), content,
                        pos + (IF Head(fields).optional THEN 1 ELSE 0)
                        + Head(fields).size)

\* C15: struct encode.  A struct field accepts every mapping
\* {field_name: value} that contains all of its non-optional inner fields
\* (no other keys are required), writes the inner fields in declaration
\* order starting at the given offset, fails when a non-optional inner
\* field is missing, and decode returns a mapping equal to the one encoded.
C15_StructEncode ==
    (enc.op = "struct.encode" /\ OffsetInBuffer)
    => /\ pc = "encoded"
          => /\ enc.ok <=> C15_HasRequired
             /\ enc.ok => C15_InOrder(enc.field.fields, enc.map_value,
                                      enc.offset0)
       /\ pc = "decoded"
          => dec.ok /\ dec.map_value = enc.map_value /\ dec.offset = offset

\* the mask of a bitmaskarray value: bit i is set exactly when the enum
\* value with key i is a key of the value
C16_Mask ==
    LET keys == {enc.dict_value[i].key : i \in DOMAIN enc.dict_value}
        bit(i) == IF enc.field.enum[i].value \in keys
                  THEN 2^enc.field.enum[i].key ELSE 0
    IN  bit(1) + bit(2) + bit(3)

\* the width in bits of one row: per column a presence bit if it is
\* optional, and the column's bits if it is present
RECURSIVE C16_RowWidth(_, _)
C16_RowWidth(cols, row) ==
    IF cols = <<>> THEN 0
    ELSE (IF Head(cols).optional THEN 1 ELSE 0)
         + (IF Head(cols).name \in DOMAIN row
            THEN C8_Width(Head(cols), row[Head(cols).name]) ELSE 0)
         + C16_RowWidth(Tail(cols), row)

\* the sum of the row widths
RECURSIVE C16_RowsWidth(_, _)
C16_RowsWidth(cols, rows) ==
    IF rows = <<>> THEN 0
    ELSE C16_RowWidth(cols, Head(rows)) + C16_RowsWidth(cols, Tail(rows))

\* a bitmaskarray value whose keys are enum values and whose rows give
\* every non-optional column and nothing but columns
C16_Call ==
    /\ enc.op = "bitmaskarray.encode"
    /\ OffsetInBuffer
    /\ \A i \in DOMAIN enc.dict_value :
        /\ enc.dict_value[i].key \in EnumValues(enc.field)
        /\ \A j \in DOMAIN enc.dict_value[i].rows :
            \A c \in DOMAIN enc.field.fields :
                /\ DOMAIN enc.dict_value[i].rows[j]
                       \subseteq {enc.field.fields[k].name :
                                     k \in DOMAIN enc.field.fields}
                /\ enc.field.fields[c].optional
                   \/ enc.field.fields[c].name
                         \in DOMAIN enc.dict_value[i].rows[j]

\* C16: bitmaskarray wire layout.  Encode of a bitmaskarray of size s at
\* offset o writes the s-bit mask at bits o..o+s-1 (bit i set exactly when
\* the enum value with key i is a key of the input), then the rows of the
\* populated categories, and returns the offset o + s + (sum of the row
\* widths in bits).
C16_BmaLayout ==
    (pc = "encoded" /\ C16_Call)
    => /\ enc.ok
       /\ Len(buffer) * 8 >= enc.offset0 + enc.field.size
       /\ C7_BitsAt(enc.offset0, enc.field.size) = C16_Mask
       /\ offset = enc.offset0 + enc.field.size
                   + C16_RowsWidth(enc.field.fields, C8_Rows(enc.dict_value))

\* the mask that the decoder is handed: the size bits at offset0
C17_MaskBits ==
    SubSeq(FromBytes(dec.buffer0), dec.offset0 + 1,
           dec.offset0 + dec.field.size)

\* popcount(mask)
C17_Popcount == Cardinality({i \in DOMAIN C17_MaskBits : C17_MaskBits[i] = 1})

\* the enum value names whose keys are the set bits of the mask (the bit
\* of key k is bit k of the mask, counted from the least significant)
C17_Names ==
    {dec.field.enum[i].value :
        i \in {j \in DOMAIN dec.field.enum :
                  C17_MaskBits[dec.field.size - dec.field.enum[j].key] = 1}}

\* a buffer that holds the mask and, for a field with one non-optional
\* uint column, one row per set bit of the mask
C17_Call ==
    /\ dec.op = "bitmaskarray.decode"
    /\ Len(dec.field.fields) = 1
    /\ dec.field.fields[1].type = "uint" /\ ~dec.field.fields[1].optional
    /\ dec.offset0 + dec.field.size <= 8 * Len(dec.buffer0)
    /\ dec.offset0 + dec.field.size
         + C17_Popcount * dec.field.fields[1].size <= 8 * Len(dec.buffer0)

\* C17: bitmaskarray popcount law.  For every buffer decoded by a
\* bitmaskarray field, the number of row blocks read after the mask equals
\* popcount(mask), and the returned mapping has as its key set exactly the
\* enum value names whose keys are the set bits of the mask (an all-zero
\* mask gives the empty mapping).
C17_PopcountLaw ==
    (pc = "decoded" /\ C17_Call)
    => /\ dec.ok
       /\ {dec.dict_value[i].key : i \in DOMAIN dec.dict_value} = C17_Names
       /\ dec.offset = dec.offset0 + dec.field.size
                       + C17_Popcount * dec.field.fields[1].size

\* B: the bits that the fields contribute, presence bits, length prefixes
\* and payloads
RECURSIVE C18_Bits(_, _)
C18_Bits(fields, content) ==
    IF fields = <<>> THEN 0
    ELSE (IF Head(fields).optional THEN 1 ELSE 0)
         + (IF Head(fields).name \in DOMAIN content
            THEN C8_Width(Head(fields), content[Head(fields).name]) ELSE 0)
         + C18_Bits(Tail(fields), content)

\* ceil(bits / 8)
C18_Bytes(bits) == (bits + 7) \div 8

\* C18: minimum-width output.  For every message and conforming value the
\* byte length of the encoded output is exactly ceil(B/8) without framing
\* and ceil((16+B)/8) under nim, where B is the total of the bits
\* contributed by the fields; no padding byte is added between or after
\* fields, also when a field's payload is empty.
C18_MinimumWidth ==
    (pc = "encoded" /\ C1_Conforming)
    => /\ enc.ok
       /\ Len(wire.bytes)
          = C18_Bytes((IF enc.nim THEN 16 ELSE 0)
                      + C18_Bits(enc.message[1].fields, enc.content.value))

\* C19: a failed encode leaves the caller's buffer unchanged.  Whenever
\* an encode call that was given a caller-owned buffer fails with an
\* error, that buffer has the same length and the same contents as before
\* the call, also when the failure happens after presence bits or a length
\* prefix have been processed.
C19_FailedEncodeKeepsBuffer ==
    (/\ pc = "encoded" /\ ~enc.ok
     /\ enc.op \in {"uint.encode", "string.encode", "data.encode",
                    "bitmaskarray.encode", "struct.encode",
                    "encode_field_length"})
    => buffer = enc.buffer0

\* C20: truncated input is an error.  For every message M, every output
\* b of encode_message for M (with or without nim) and every buffer b'
\* obtained by removing one or more trailing bytes of b, decode_message(b')
\* with the same message and framing fails with an error instead of
\* returning a value.
C20_TruncatedIsError ==
    (/\ pc = "decoded" /\ removed > 0 /\ C1_Conforming
     /\ dec.op = "decode_message"
     /\ dec.messages = <<>> /\ dec.message = enc.message
     /\ dec.nim = enc.nim /\ ~dec.coap)
    => ~dec.ok

\* the list held a message with the name, or with the (message_key,
\* direction) pair, of the codec that is appended
C21_Duplicate ==
    \E i \in DOMAIN listop.before :
        \/ listop.before[i].name = listop.codec.name
        \/ /\ listop.before[i].message_key = listop.codec.message_key
           /\ listop.before[i].direction = listop.codec.direction

\* C21: duplicate insertion fails.  Messages.append(m) raises an error
\* and leaves the list unchanged when the list already holds a message
\* with the same name or with the same (message_key, direction) pair;
\* otherwise m becomes the last element and every earlier element keeps
\* its position.
C21_DuplicateAppendFails ==
    (listop.op = "append" /\ IsMessage(listop.codec))
    => IF C21_Duplicate
       THEN ~listop.ok /\ messages = listop.before
       ELSE /\ listop.ok
            /\ Len(messages) = Len(listop.before) + 1
            /\ messages[Len(messages)] = listop.codec
            /\ SubSeq(messages, 1, Len(listop.before)) = listop.before

\* an append refused for the pair alone: the name is new, the
\* (message_key, direction) pair is the one of the only element
C21_Witness ==
    /\ listop.op = "append" /\ ~listop.ok
    /\ Len(listop.before) = 1
    /\ IsMessage(listop.codec)
    /\ listop.before[1].name /= listop.codec.name
    /\ listop.before[1].message_key = listop.codec.message_key
    /\ listop.before[1].direction = listop.codec.direction
    /\ messages = listop.before

\* C22: strict message_key constraints.  Constructing a Message (or
\* assigning message_key) is rejected with an error when coap_compatible
\* is true and the key is below 49152, when vsat_reserved is false and
\* the key is above 65279, or when nimo_compatible is true and the key is
\* outside 32768..65279: no Message with a conflicting key ever exists.
C22_ConflictingKeyRejected ==
    (/\ enc.op = "Message"
     /\ \/ enc.coap_compatible /\ enc.key < 49152
        \/ ~enc.vsat_reserved /\ enc.key > 65279
        \/ enc.nimo_compatible /\ enc.key \notin 32768..65279)
    => ~enc.ok

\* value held to min..max
C23_Clipped(value, min, max) ==
    IF value < min THEN min ELSE IF value > max THEN max ELSE value

\* C23: uint saturation with min/max.  When min and max are set on a uint
\* field, encode never fails for an out-of-range value but writes min for
\* every value below min and max for every value above max; values inside
\* min..max are written unchanged.
C23_UintSaturates ==
    (/\ pc = "encoded" /\ enc.op = "uint.encode"
     /\ "min" \in DOMAIN enc.field
     /\ OffsetInBuffer)
    => /\ enc.ok
       /\ C7_BitsAt(enc.offset0, enc.field.size)
            = C23_Clipped(enc.int_value, enc.field.min, enc.field.max)

\* bit i of a buffer, bits numbered from 0 at the most significant bit
\* of the first byte
C24_BitAt(buffer0, i) == (buffer0[(i \div 8) + 1] \div 2^(7 - (i % 8))) % 2

\* the integer whose binary digits are bits o..o+n-1 of the buffer
C24_Unsigned(buffer0, o, n) ==
    BitsToInt([k \in 1..n |-> C24_BitAt(buffer0, o + k - 1)])

\* C24: bit extraction.  For every buffer, offset o >= 0 and length
\* n >= 1 with o + n <= 8*len(buffer), extract_from_buffer returns the
\* integer whose binary digits are bits o..o+n-1 of the buffer, MSB
\* first, and with signed=true the two's-complement value of those n
\* bits, a result in -2^(n-1)..2^(n-1)-1; whenever o + n > 8*len(buffer)
\* it fails and returns nothing.
C24_BitExtraction ==
    (dec.op = "extract_from_buffer" /\ dec.offset0 >= 0 /\ dec.length >= 1)
    => IF dec.offset0 + dec.length <= 8 * Len(dec.buffer0)
       THEN /\ dec.ok
            /\ LET u == C24_Unsigned(dec.buffer0, dec.offset0, dec.length)
               IN  IF dec.signed
                   THEN /\ dec.int_value
                             = IF u >= 2^(dec.length - 1)
                               THEN u - 2^dec.length ELSE u
                        /\ dec.int_value >= 0 - 2^(dec.length - 1)
                        /\ dec.int_value <= 2^(dec.length - 1) - 1
                   ELSE dec.int_value = u
       ELSE ~dec.ok

\* the third extraction of the tests, two bits across a byte boundary
\* (bits 7 and 8 of 01 02 03 are 1 and 0), and a negative signed result
C24_Witness ==
    /\ dec.op = "extract_from_buffer" /\ dec.ok
    /\ dec.buffer0 = <<1, 2, 3>> /\ dec.offset0 = 7 /\ dec.length = 2
    /\ dec.signed /\ dec.int_value = 0 - 2

\* ceil(n / 8)
C25_Bytes(n) == (n + 7) \div 8

\* C25: misaligned byte append reads back.  For every buffer, whatever
\* its previous contents, every byte string data and every bit offset
\* o <= 8*len(buffer), aligned or not, after
\* append_bytes_to_buffer(data, buffer, o) the result satisfies
\* extract_from_buffer(result, o, 8*len(data)) = data, every bit before o
\* is unchanged, and the result is ceil((o + 8*len(data))/8) bytes long
\* when that exceeds the old length.  (Stated for data of at least one
\* byte: an extraction of no bits is an error.)
C25_AppendBytesReadsBack ==
    (/\ pc = "encoded" /\ enc.op = "append_bytes_to_buffer"
     /\ enc.bytes_value /= <<>>
     /\ enc.offset0 <= 8 * Len(enc.buffer0))
    => /\ enc.ok
       /\ LET r == ExtractFromBuffer(buffer, enc.offset0,
                                     8 * Len(enc.bytes_value), FALSE, TRUE)
          IN  r.ok /\ r.bytes = enc.bytes_value
       /\ \A i \in 0..(enc.offset0 - 1) :
               C24_BitAt(buffer, i) = C24_BitAt(enc.buffer0, i)
       /\ C25_Bytes(enc.offset0 + 8 * Len(enc.bytes_value)) > Len(enc.buffer0)
            => Len(buffer)
                 = C25_Bytes(enc.offset0 + 8 * Len(enc.bytes_value))

\* C26: trailing bits stay zero.  In every sequence of
\* append_bits_to_buffer and append_bytes_to_buffer calls that starts from
\* an empty buffer and in which each call writes at the cursor where the
\* previous call ended, after every call all buffer bits at positions at
\* or after the new cursor are zero.
C26_TrailingBitsZero ==
    \A i \in offset..(8 * Len(buffer) - 1) : C24_BitAt(buffer, i) = 0

\* a byte of ones written across a byte boundary, after three calls of
\* which one appended bits: the cursor ends inside the last byte
C26_Witness ==
    /\ enc.op = "append_bytes_to_buffer" /\ enc.ok
    /\ enc.bytes_value = <<255>>
    /\ enc.offset0 = 3 /\ offset = 11
    /\ enc.buffer0 = <<160>>
    /\ buffer = <<191, 224>>

\* C27: registry uniqueness is an invariant.  In every state of a
\* Messages list reachable from the empty list by any sequence of append,
\* remove and index assignment (list[i] = m, list[name] = m), no two
\* entries have the same name and no two entries have the same
\* (message_key, direction) pair, and every entry is a Message.
C27_RegistryUnique ==
    /\ \A i \in DOMAIN messages : IsMessage(messages[i])
    /\ \A i, j \in DOMAIN messages :
            i /= j => /\ messages[i].name /= messages[j].name
                      /\ ~(/\ messages[i].message_key = messages[j].message_key
                           /\ messages[i].direction = messages[j].direction)

\* the bitmaskarray field with the accepted enum, and the value that
\* names every enum value (no rows)
C28_Field == BitmaskArrayField("testBma", enc.size, enc.enum, <<>>)

C28_AllNames == [i \in DOMAIN enc.enum |-> [key |-> enc.enum[i].value, rows |-> <<>>]]

\* C28: bitmaskarray mask always fits.  Every enum key accepted when a
\* bitmaskarray field of size s is constructed is a bit position in
\* 0..s-1 (a key equal to s or larger is rejected), so for every value
\* whose keys are enum value names the mask computed by encode is below
\* 2^s and encoding never fails because the mask needs more than s bits.
C28_MaskFits ==
    (enc.op = "enum" /\ enc.ok)
    => /\ \A i \in DOMAIN enc.enum : enc.enum[i].key \in 0..(enc.size - 1)
       /\ BmaBitmask(C28_Field, C28_AllNames).bitmask < 2^enc.size
       /\ FromInt(BmaBitmask(C28_Field, C28_AllNames).bitmask, enc.size).ok

\* length bits can represent value
C30_Fits(value, length) ==
    value < 2^length /\ value >= 0 - 2^(length - 1)

\* the least positive number of bits that can represent value
C30_MinLength(value) ==
    CHOOSE n \in 1..(MaxUintSize + 2) :
        /\ C30_Fits(value, n)
        /\ \A m \in 1..(n - 1) : ~C30_Fits(value, m)

\* C30: BitArray.from_int(value, length) raises ValueError for every
\* integer value that length bits cannot represent, that is
\* value >= 2^length or value < -2^(length-1); for every other value it
\* returns exactly length bits that are the binary (two's complement for
\* negatives) form of value, and with no length given it returns the
\* minimum number of bits needed for value.
C30_FromIntChecksRange ==
    /\ (dec.op = "from_int" /\ dec.length /= None /\ dec.length >= 1)
       => IF C30_Fits(dec.int_value, dec.length)
          THEN /\ dec.ok
               /\ Len(dec.bits) = dec.length
               /\ BitsToInt(dec.bits)
                    = IF dec.int_value < 0
                      THEN 2^dec.length + dec.int_value ELSE dec.int_value
          ELSE ~dec.ok
    /\ (dec.op = "from_int" /\ dec.length = None)
       => /\ dec.ok
          /\ Len(dec.bits) = C30_MinLength(dec.int_value)

\* the position of the first element of list named n
C29_Position(list, n) ==
    CHOOSE i \in DOMAIN list :
        list[i].name = n /\ \A k \in 1..(i - 1) : list[k].name /= n

\* C29: assignment by name replaces.  For a CodecList holding an element
\* named n, the assignment list[n] = c with c of the list's codec class
\* puts c at the position of that element, leaving the length and all
\* other elements unchanged; when no element is named n the assignment
\* fails and the list is unchanged.
C29_NameAssignmentReplaces ==
    (listop.op = "setitem.name" /\ IsMessage(listop.codec))
    => IF \E i \in DOMAIN listop.before : listop.before[i].name = listop.name
       THEN /\ listop.ok
            /\ messages = [listop.before EXCEPT
                              ![C29_Position(listop.before, listop.name)]
                                  = listop.codec]
       ELSE ~listop.ok /\ messages = listop.before

====
